---------------------------- MODULE Spec2Model ----------------------------
(***************************************************************************)
(* State-machine model of the Shopify merchandising utility routes:        *)
(*   - the paginated loaders of the duplicate-SKU, duplicate-barcode,      *)
(*     missing-SKU and missing-barcode finders,                            *)
(*   - the bulk actions of the duplicate-SKU and missing-SKU routes,       *)
(*   - parseCSVLine of the CSV-comparison and fulfil-from views.           *)
(* Strings the code inspects character by character (SKUs, barcodes, CSV   *)
(* lines, variant gids) are sequences of one-character strings.            *)
(***************************************************************************)
EXTENDS Integers, Sequences, FiniteSets, TLC

(***************************************************************************)
(* Bounds of the model.                                                    *)
(***************************************************************************)
\* variants the store delivers to one loader run
MaxVariants == 2
\* variants delivered in a run of the sort-oriented specification
MaxSortVariants == 5
\* products the store delivers to one loader run
MaxProducts == 2
\* page fetches of one loader run
MaxFetches == 2
\* variants the store holds when a bulk action is submitted
MaxStoreVariants == 3
\* bulk actions submitted one after another
MaxRuns == 2
\* missing-SKU updates submitted one after another
MaxUpdateRuns == 1
\* edges in one page of the variant search
SearchPageSize == 2
\* userErrors one write call reports
MaxUserErrors == 2
\* characters of a generated CSV row
MaxLine == 4
\* rows of the uploaded CSV handed to the comparison
MaxCsvRows == 2
\* variants in one page of the comparison's product fetch
MaxPageVariants == 1
MaxSharedVariants == 2
MaxCollectionProducts == 3
MaxAssignments == 2
\* bulk operations the operator starts from a page
MaxOperations == 1
\* the same for the duplicate-SKU view on its own
MaxRepeatedOperations == 2
\* data lines of an uploaded file, and files chosen in one visit
MaxUploadLines == 2
MaxFiles == 1
\* the count of handled results is kept up to this value
MaxHandled == 2

(***************************************************************************)
(* JavaScript values.                                                      *)
(***************************************************************************)
\* an optional string: null/undefined, or a string value
Null == [isNull |-> TRUE, str |-> <<>>]
Str(s) == [isNull |-> FALSE, str |-> s]

\* JavaScript truthiness of an optional string: null, undefined and "" are falsy
Falsy(v) == v.isNull \/ v.str = <<>>

IsSpace(c) == c = " "

RECURSIVE TrimStart(_)
TrimStart(s) ==
  IF s # <<>> /\ IsSpace(Head(s)) THEN TrimStart(Tail(s)) ELSE s

RECURSIVE TrimEnd(_)
TrimEnd(s) ==
  IF s # <<>> /\ IsSpace(s[Len(s)]) THEN TrimEnd(SubSeq(s, 1, Len(s) - 1)) ELSE s

\* String.prototype.trim
Trim(s) == TrimEnd(TrimStart(s))

\* v?.trim(): undefined stays undefined
OptTrim(v) == IF v.isNull THEN Null ELSE Str(Trim(v.str))

(***************************************************************************)
(* The external store as the loaders see it: pages of products, each with  *)
(* its variants.  The key field values the store may hold:                 *)
(***************************************************************************)
Keys ==
  { Null, Str(<<>>), Str(<<" ">>), Str(<<"A">>), Str(<<"A", " ">>), Str(<<"B">>) }

SortKeys == { Str(<<"A">>), Str(<<"B">>) }

Routes == { "duplicate-skus", "duplicate-barcodes", "missing-skus", "missing-barcodes" }
DuplicateRoutes == { "duplicate-skus", "duplicate-barcodes" }
MissingRoutes == { "missing-skus", "missing-barcodes" }

\* the field a route reconciles
KeyField(r) == IF r \in { "duplicate-skus", "missing-skus" } THEN "sku" ELSE "barcode"

\* the variants of one product node: each a key field value
ProductChoices(pool, n) == UNION { [1..k -> pool] : k \in 0..n }

\* the product edges of one page: at most m products, at most q variants in all
RECURSIVE PageChoices(_, _, _)
PageChoices(pool, m, q) ==
  IF m = 0 THEN { <<>> }
  ELSE { <<>> } \cup
       UNION { { <<p>> \o rest : rest \in PageChoices(pool, m - 1, q - Len(p)) } :
               p \in ProductChoices(pool, q) }

RECURSIVE SumLen(_)
SumLen(ss) == IF ss = <<>> THEN 0 ELSE Len(Head(ss)) + SumLen(Tail(ss))

VARIABLES
  route,            \* which loader runs
  keyPool,          \* key field values the store holds
  quota,            \* variants the store may still deliver
  fetches,          \* page fetches issued so far
  scanned,          \* the variant nodes the run has collected, in delivery order
  discarded,        \* how many collected nodes a failed run dropped
  lpc,              \* loader position: "loop", "returned", "failed"
  cursor, hasNextPage, fetchedProducts,
  skuMap,           \* skuMap / barcodeMap: insertion-ordered Map key -> variants
  missingSKUs,      \* missingSKUs / missingBarcodes
  totalVariants, variantsWithSKUs,
  loaderResult      \* what the loader returned

loaderVars ==
  << route, keyPool, quota, fetches, scanned, discarded, lpc, cursor, hasNextPage,
     fetchedProducts, skuMap, missingSKUs, totalVariants, variantsWithSKUs,
     loaderResult >>

VARIABLES
  store,             \* variant -> [sku, alive]
  run,               \* bulk actions submitted so far
  apc,               \* action position: "idle", "search", "write", "done"
  actionType,        \* "removeSku", "reassignSku", "deleteVariants", "updateMissing"
  skuList, skuIdx,   \* the SKUs to process and the one being searched
  searchCursor,      \* cursor of the variant search (0: null)
  variantsByProduct, \* variantsByProduct / variantGroups / grouped, in Map order
  writeIdx,          \* the entry the write loop is at
  totalUpdated,      \* totalUpdated / totalDeleted / successCount
  failedCount, errors,
  writeLog,          \* the write calls issued by this action, with their outcome
  actionResult,      \* what the action returned
  clearedNow,        \* variants whose SKU this action cleared
  prev               \* the previous action when it was a successful removeSku

actionVars ==
  << store, run, apc, actionType, skuList, skuIdx, searchCursor,
     variantsByProduct, writeIdx, totalUpdated, failedCount, errors, writeLog,
     actionResult, clearedNow, prev >>

VARIABLES
  line,              \* the CSV row handed to parseCSVLine
  fields,            \* the fields it returned
  cpc                \* "row": not parsed yet, "parsed"

csvVars == << line, fields, cpc >>

VARIABLES
  csvDataGiven,      \* the form carries a csvData field
  csvRows,           \* JSON.parse(csvData): rows with SKU and GTIN
  cmpPc,             \* "loop", "returned", "failed", "idle"
  cmpFetches,        \* page fetches issued by the comparison
  cmpHasNextPage, cmpCursor,
  shopifyVariants,   \* Map SKU -> variant details, in insertion order
  cmpProducts,       \* the variants of the page fetched in the last iteration
  cmpResult          \* what the comparison returned

cmpVars ==
  << csvDataGiven, csvRows, cmpPc, cmpFetches, cmpHasNextPage, cmpCursor,
     shopifyVariants, cmpProducts, cmpResult >>

VARIABLES
  duplicates,        \* the rows the page lists: loader data as last loaded
  selectedSkus,      \* selectedSkus of the duplicate-SKU view
  selectedVariants,  \* selectedVariantsBySku (all groups) / selectedVariants
  showModal, modalState, modalAction,
  selectedSkuInfo,   \* the skus of the pending SKU operation (<<>>: null)
  selectedVariantInfo, \* [sku, variantIds] of the pending delete (sku <<>>: null)
  fetcherState,      \* fetcher.state: "idle", "submitting", "loading"
  fetcherData,       \* fetcher.data: <<>> while undefined, else << result >>
  clientError,       \* clientError of the missing-SKU view ("null": none)
  handledFetcherResultRef,
  resultsHandled     \* times the completion effect acted since the last submit

viewVars ==
  << duplicates, selectedSkus, selectedVariants, showModal, modalState, modalAction,
     selectedSkuInfo, selectedVariantInfo, fetcherState, fetcherData, clientError,
     handledFetcherResultRef, resultsHandled >>

VARIABLES
  csvFile,           \* the chosen file: <<>> while none, else << its lines >>
  filesChosen,       \* files the operator has chosen so far
  upc,               \* upload position: "idle", "reading", "submitted", "failed"
  alerted            \* the text of the last alert ("null": none)

uploadVars == << csvFile, filesChosen, upc, alerted >>

VARIABLES
  collection,          \* the product ids the store's collection holds
  assignments,         \* requests the best-sellers action has served
  bsRequest,           \* productIds and assignmentMode of the last request
  existingProductIds,  \* the membership the action fetched
  addCalls,            \* the productIds of its collectionAddProducts calls
  bsResult,            \* success of what it returned
  bsPrev               \* the request before the last, and its success

bsVars ==
  << collection, assignments, bsRequest, existingProductIds, addCalls, bsResult, bsPrev >>

vars == << loaderVars, actionVars, csvVars, cmpVars, viewVars, uploadVars, bsVars >>

(***************************************************************************)
(* Insertion-ordered Map: a sequence of [key, variants] entries.           *)
(***************************************************************************)
MapHas(m, k) == \E i \in 1..Len(m) : m[i].key = k
MapIndex(m, k) == CHOOSE i \in 1..Len(m) : m[i].key = k
MapGet(m, k) == m[MapIndex(m, k)].variants
MapSetEmpty(m, k) == Append(m, [key |-> k, variants |-> <<>>])
MapPush(m, k, v) ==
  [m EXCEPT ![MapIndex(m, k)].variants = Append(@, v)]

\* the key field of a variant node on a route
KeyOf(r, variant) == IF KeyField(r) = "sku" THEN variant.sku ELSE variant.barcode

\* a variant node of the page response
VariantNode(r, vid, pid, key) ==
  [ id |-> vid, productId |-> pid,
    sku |-> IF KeyField(r) = "sku" THEN key ELSE Null,
    barcode |-> IF KeyField(r) = "barcode" THEN key ELSE Null ]

\* the nodes of a page, flattened in delivery order; ids continue the counters
RECURSIVE PageNodes(_, _, _, _)
PageNodes(r, page, nextPid, nextVid) ==
  IF page = <<>> THEN <<>>
  ELSE [ i \in 1..Len(Head(page)) |->
           VariantNode(r, nextVid + i - 1, nextPid, Head(page)[i]) ]
       \o PageNodes(r, Tail(page), nextPid + 1, nextVid + Len(Head(page)))

(***************************************************************************)
(* Duplicate loaders: the per-variant body of the page loop.               *)
(***************************************************************************)
\* mutant: the empty-key check dropped
GroupVariantNoSkip(r, m, variant) ==
  LET sku == OptTrim(KeyOf(r, variant)) IN
  LET m1 == IF MapHas(m, sku.str) THEN m ELSE MapSetEmpty(m, sku.str) IN
  MapPush(m1, sku.str,
          [ key |-> sku.str, productId |-> variant.productId,
            variantId |-> variant.id ])

\* skip empty keys, else create the entry on first sight and push the variant
GroupVariant(r, m, variant) ==
  LET sku == OptTrim(KeyOf(r, variant)) IN
  IF Falsy(sku) THEN m
  ELSE LET m1 == IF MapHas(m, sku.str) THEN m ELSE MapSetEmpty(m, sku.str) IN
       MapPush(m1, sku.str,
               [ key |-> sku.str, productId |-> variant.productId,
                 variantId |-> variant.id ])

RECURSIVE GroupNodes(_, _, _)
GroupNodes(r, m, nodes) ==
  IF nodes = <<>> THEN m
  ELSE GroupNodes(r, GroupVariant(r, m, Head(nodes)), Tail(nodes))

(***************************************************************************)
(* Missing loaders: the per-variant body of the page loop.                 *)
(***************************************************************************)
HasKey(r, variant) == ~Falsy(OptTrim(KeyOf(r, variant)))

\* mutant: variantsWithSKUs++ outside the if
CountWithKeyAll(r, nodes) == Len(nodes)

RECURSIVE CountWithKey(_, _)
CountWithKey(r, nodes) ==
  IF nodes = <<>> THEN 0
  ELSE (IF HasKey(r, Head(nodes)) THEN 1 ELSE 0) + CountWithKey(r, Tail(nodes))

RECURSIVE MissingOf(_, _)
MissingOf(r, nodes) ==
  IF nodes = <<>> THEN <<>>
  ELSE (IF HasKey(r, Head(nodes)) THEN <<>>
        ELSE << [ productId |-> Head(nodes).productId,
                  variantId |-> Head(nodes).id ] >>)
       \o MissingOf(r, Tail(nodes))

(***************************************************************************)
(* Array.prototype.sort((a, b) => b.count - a.count): a stable sort, so    *)
(* an element is placed after every element that does not compare greater. *)
(***************************************************************************)
RECURSIVE InsertByCount(_, _)
InsertByCount(sorted, e) ==
  IF sorted = <<>> THEN << e >>
  ELSE IF Head(sorted).count >= e.count
       THEN << Head(sorted) >> \o InsertByCount(Tail(sorted), e)
       ELSE << e >> \o sorted

\* mutant: an unstable sort, which lets a later equal element overtake
RECURSIVE InsertByCountUnstable(_, _)
InsertByCountUnstable(sorted, e) ==
  IF sorted = <<>> THEN << e >>
  ELSE IF Head(sorted).count > e.count
       THEN << Head(sorted) >> \o InsertByCountUnstable(Tail(sorted), e)
       ELSE << e >> \o sorted

RECURSIVE SortByCountUnstable(_)
SortByCountUnstable(arr) ==
  IF arr = <<>> THEN <<>>
  ELSE InsertByCountUnstable(SortByCountUnstable(SubSeq(arr, 1, Len(arr) - 1)),
                             arr[Len(arr)])

RECURSIVE SortByCount(_)
SortByCount(arr) ==
  IF arr = <<>> THEN <<>>
  ELSE InsertByCount(SortByCount(SubSeq(arr, 1, Len(arr) - 1)), arr[Len(arr)])

\* mutant: variants.length >= 1 in place of > 1
RECURSIVE DuplicateEntriesAll(_)
DuplicateEntriesAll(m) ==
  IF m = <<>> THEN <<>>
  ELSE << [ key |-> Head(m).key, count |-> Len(Head(m).variants),
            variants |-> Head(m).variants ] >>
       \o DuplicateEntriesAll(Tail(m))

\* the entries with more than one variant, in Map order
RECURSIVE DuplicateEntries(_)
DuplicateEntries(m) ==
  IF m = <<>> THEN <<>>
  ELSE (IF Len(Head(m).variants) > 1
        THEN << [ key |-> Head(m).key, count |-> Len(Head(m).variants),
                  variants |-> Head(m).variants ] >>
        ELSE <<>>)
       \o DuplicateEntries(Tail(m))

RECURSIVE SumVariants(_)
SumVariants(m) ==
  IF m = <<>> THEN 0 ELSE Len(Head(m).variants) + SumVariants(Tail(m))

\* totalVariantsScanned of the duplicate loaders: summed over the Map entries
TotalVariantsScanned(m) == SumVariants(m)

\* pageInfo.endCursor of a connection page: the cursor of its last edge, null
\* (0 here) when the page has no edges
EndCursor(page, n) == IF page = <<>> THEN 0 ELSE n

NoProductsError == "No products were found"

\* mutant: the error result carries what the earlier pages had collected
ErrorResultKeepsCollected(msg) ==
  [ duplicates |-> DuplicateEntries(skuMap), missing |-> missingSKUs,
    totalProductsScanned |-> fetchedProducts, totalVariantsScanned |-> totalVariants,
    variantsWithKey |-> variantsWithSKUs, error |-> msg ]

\* the value a loader returns from inside the collection loop on a failed page
ErrorResult(msg) ==
  [ duplicates |-> <<>>, missing |-> <<>>, totalProductsScanned |-> 0,
    totalVariantsScanned |-> 0, variantsWithKey |-> 0, error |-> msg ]

\* the value a duplicate loader returns after the loop
DuplicatesResult(m, fetched) ==
  [ duplicates |-> SortByCount(DuplicateEntries(m)), missing |-> <<>>,
    totalProductsScanned |-> fetched,
    totalVariantsScanned |-> TotalVariantsScanned(m),
    variantsWithKey |-> SumVariants(m),
    error |-> IF fetched = 0 THEN NoProductsError ELSE "null" ]

\* the value a missing loader returns after the loop
MissingResult(missing, fetched, total, withKey) ==
  [ duplicates |-> <<>>, missing |-> missing, totalProductsScanned |-> fetched,
    totalVariantsScanned |-> total, variantsWithKey |-> withKey,
    error |-> IF fetched = 0 THEN NoProductsError ELSE "null" ]

NoResult == ErrorResult("pending")

(***************************************************************************)
(* Loader: state after the declarations that precede the while loop.       *)
(***************************************************************************)
LoaderStart(r, pool, q) ==
  /\ route = r
  /\ keyPool = pool
  /\ quota = q
  /\ fetches = 0
  /\ scanned = <<>>
  /\ discarded = 0
  /\ lpc = "loop"
  /\ cursor = 0
  /\ hasNextPage = TRUE
  /\ fetchedProducts = 0
  /\ skuMap = <<>>
  /\ missingSKUs = <<>>
  /\ totalVariants = 0
  /\ variantsWithSKUs = 0
  /\ loaderResult = NoResult

\* the locals of the loader once it has returned: the frame is gone
FrameGone ==
  /\ cursor' = 0
  /\ hasNextPage' = FALSE
  /\ fetchedProducts' = 0
  /\ skuMap' = <<>>
  /\ missingSKUs' = <<>>
  /\ totalVariants' = 0
  /\ variantsWithSKUs' = 0

\* one iteration of the while loop whose page fetch fails: json.errors, no
\* products data, or a thrown error caught by the inner catch; the loader
\* returns at once and what it had collected is dropped with its frame
FetchPageFails ==
  /\ UNCHANGED << actionVars, csvVars, cmpVars, viewVars, uploadVars, bsVars >>
  /\ lpc = "loop"
  /\ hasNextPage
  /\ fetches < MaxFetches
  /\ \E msg \in { "GraphQL error", "Failed to fetch products", "Error finding" } :
       loaderResult' = ErrorResult(msg)
  /\ fetches' = fetches + 1
  /\ lpc' = "failed"
  /\ discarded' = Len(scanned)
  /\ scanned' = <<>>
  /\ FrameGone
  /\ UNCHANGED << route, keyPool, quota >>

\* one iteration of the while loop on a page response; when the response says
\* hasNextPage false the code after the loop runs in the same step and the
\* loader returns
FetchPage ==
  /\ UNCHANGED << actionVars, csvVars, cmpVars, viewVars, uploadVars, bsVars >>
  /\ lpc = "loop"
  /\ hasNextPage
  /\ fetches < MaxFetches
  /\ \E page \in PageChoices(keyPool, MaxProducts - fetchedProducts, quota),
        more \in BOOLEAN :
       LET endCursor == EndCursor(page, fetches + 1)
           nodes == PageNodes(route, page, fetchedProducts + 1, Len(scanned) + 1)
           fetched == fetchedProducts + Len(page)
           m == IF route \in DuplicateRoutes
                THEN GroupNodes(route, skuMap, nodes) ELSE skuMap
           missing == IF route \in MissingRoutes
                      THEN missingSKUs \o MissingOf(route, nodes) ELSE missingSKUs
           total == IF route \in MissingRoutes
                    THEN totalVariants + Len(nodes) ELSE totalVariants
           withKey == IF route \in MissingRoutes
                      THEN variantsWithSKUs + CountWithKey(route, nodes)
                      ELSE variantsWithSKUs
       IN
       /\ fetches' = fetches + 1
       /\ quota' = quota - Len(nodes)
       /\ scanned' = scanned \o nodes
       /\ IF more
          THEN /\ lpc' = "loop"
               /\ fetchedProducts' = fetched
               /\ skuMap' = m
               /\ missingSKUs' = missing
               /\ totalVariants' = total
               /\ variantsWithSKUs' = withKey
               /\ hasNextPage' = more
               /\ cursor' = endCursor
               /\ loaderResult' = loaderResult
          ELSE /\ lpc' = "returned"
               /\ loaderResult' =
                    IF route \in DuplicateRoutes
                    THEN DuplicatesResult(m, fetched)
                    ELSE MissingResult(missing, fetched, total, withKey)
               /\ FrameGone
  /\ UNCHANGED << route, keyPool, discarded >>

LoaderNext == FetchPage \/ FetchPageFails


(***************************************************************************)
(* The store as the bulk actions see it: variants 1..MaxStoreVariants,     *)
(* two to a product, each with a global id and a SKU.                      *)
(***************************************************************************)
GidPrefix ==
  << "g", "i", "d", ":", "/", "/", "s", "h", "o", "p", "i", "f", "y", "/",
     "P", "r", "o", "d", "u", "c", "t", "V", "a", "r", "i", "a", "n", "t", "/" >>

DigitChars == << "1", "2", "3", "4", "5", "6", "7", "8", "9" >>

StoreVariants == 1..MaxStoreVariants
\* gid://shopify/ProductVariant/<n>
Gid(v) == GidPrefix \o << DigitChars[v] >>
VariantOfGid(g) == CHOOSE v \in StoreVariants : Gid(v) = g
\* node.product.id of a variant
ProductOf(v) == (v + 1) \div 2

StoreSkus == { Null, Str(<<"A", " ">>), Str(<<"A", "B">>) }

IsPrefix(p, s) == Len(p) <= Len(s) /\ SubSeq(s, 1, Len(p)) = p

\* the variants a "sku:<q>" search returns, in id order: every live variant
\* whose SKU starts with the term, which includes every exact match
SearchMatches(st, q) ==
  { v \in StoreVariants :
      /\ st[v].alive
      /\ ~st[v].sku.isNull
      /\ IsPrefix(q, Trim(st[v].sku.str)) }

RECURSIVE SetToSeq(_)
SetToSeq(S) ==
  IF S = {} THEN <<>>
  ELSE LET m == CHOOSE x \in S : \A y \in S : x <= y
       IN << m >> \o SetToSeq(S \ { m })

\* one page of the productVariants connection after the given cursor
SearchPageOf(st, q, after) ==
  LET all == SetToSeq(SearchMatches(st, q))
      last == IF after + SearchPageSize < Len(all)
              THEN after + SearchPageSize ELSE Len(all)
  IN [ edges |-> SubSeq(all, after + 1, last),
       hasNextPage |-> last < Len(all),
       endCursor |-> IF last > after THEN last ELSE 0 ]

(***************************************************************************)
(* Reassigned SKU derivation.                                              *)
(***************************************************************************)
\* variantGid.split("/").pop()
RECURSIVE SplitPop(_)
SplitPop(g) ==
  IF \E i \in DOMAIN g : g[i] = "/"
  THEN LET i == CHOOSE k \in DOMAIN g : g[k] = "/" /\ \A j \in 1..(k - 1) : g[j] # "/"
       IN SplitPop(SubSeq(g, i + 1, Len(g)))
  ELSE g

\* s.replace(pat, ""): the first occurrence removed
ReplaceFirst(g, pat) ==
  LET at == { i \in 1..(Len(g) - Len(pat) + 1) : SubSeq(g, i, i + Len(pat) - 1) = pat }
  IN IF at = {} THEN g
     ELSE LET i == CHOOSE k \in at : \A j \in at : k <= j
          IN SubSeq(g, 1, i - 1) \o SubSeq(g, i + Len(pat), Len(g))

\* mutant: the new SKU built from the variant's current SKU
NewSkuFromCurrent(gid, current) == << "I", "C", "-" >> \o current

\* `IC-${numericId}` of the duplicate-SKU action
NewSkuValue(gid, current) == << "I", "C", "-" >> \o SplitPop(gid)

\* `IC-${numericId}` of the missing-SKU action
NewSKU(gid, current) == << "I", "C", "-" >> \o ReplaceFirst(gid, GidPrefix)

\* the value an action returns
ActionFailure(msg) ==
  [ success |-> FALSE, error |-> msg, count |-> 0, failedCount |-> 0, errors |-> <<>> ]
ActionSuccess(n) ==
  [ success |-> TRUE, error |-> "null", count |-> n, failedCount |-> 0, errors |-> <<>> ]
UpdateMissingResult(ok, failed, errs) ==
  [ success |-> TRUE, error |-> "null", count |-> ok, failedCount |-> failed,
    errors |-> errs ]

NoPrev == [ actionType |-> "none", skuList |-> <<>>, success |-> FALSE, cleared |-> {} ]

ActionIdle ==
  /\ run = 0
  /\ apc = "idle"
  /\ actionType = "none"
  /\ skuList = <<>>
  /\ skuIdx = 0
  /\ searchCursor = 0
  /\ variantsByProduct = <<>>
  /\ writeIdx = 0
  /\ totalUpdated = 0
  /\ failedCount = 0
  /\ errors = <<>>
  /\ writeLog = <<>>
  /\ actionResult = ActionFailure("pending")
  /\ clearedNow = {}
  /\ prev = NoPrev

\* product -> inputs Map helpers (insertion ordered)
GroupHas(m, p) == \E i \in 1..Len(m) : m[i].productId = p
GroupIndex(m, p) == CHOOSE i \in 1..Len(m) : m[i].productId = p
GroupPush(m, p, input) ==
  LET m1 == IF GroupHas(m, p) THEN m
            ELSE Append(m, [ productId |-> p, inputs |-> <<>> ])
  IN [ m1 EXCEPT ![GroupIndex(m1, p)].inputs = Append(@, input) ]

\* skuList.map((s) => s && s.trim()).filter(Boolean)
RECURSIVE TrimFilter(_)
TrimFilter(list) ==
  IF list = <<>> THEN <<>>
  ELSE (IF Trim(Head(list)) = <<>> THEN <<>> ELSE << Trim(Head(list)) >>)
       \o TrimFilter(Tail(list))

\* the trimmed non-empty SKUs the store holds
SkusInStore(st) ==
  { Trim(st[v].sku.str) : v \in { w \in StoreVariants : st[w].alive /\ ~Falsy(OptTrim(st[w].sku)) } }

\* the `skus` form field: the SKUs of one or two listed variants, or the
\* SKUs submitted last time (a list the view has not reloaded yet)
SkuListChoices(st, before) ==
  { << s >> : s \in SkusInStore(st) }
  \cup { << Trim(st[v].sku.str), Trim(st[w].sku.str) >> :
         v, w \in { x \in StoreVariants :
                     /\ st[x].alive
                     /\ ~Falsy(OptTrim(st[x].sku))
                     /\ \A y \in 1..(x - 1) : st[y].sku # st[x].sku } }
  \cup { before.skuList }

\* what every submitted action starts from
Submit(kind, list) ==
  /\ apc \in { "idle", "done" }
  /\ run < (IF kind = "updateMissing" THEN MaxUpdateRuns ELSE MaxRuns)
  /\ run' = run + 1
  /\ actionType' = kind
  /\ skuList' = list
  /\ prev' = IF actionType = "removeSku" /\ actionResult.success
             THEN [ actionType |-> actionType, skuList |-> skuList,
                    success |-> TRUE, cleared |-> clearedNow ]
             ELSE NoPrev
  /\ clearedNow' = {}
  /\ writeLog' = <<>>
  /\ totalUpdated' = 0
  /\ failedCount' = 0
  /\ errors' = <<>>
  /\ searchCursor' = 0
  /\ UNCHANGED store

\* the locals of a returned action
ActionReturns(result) ==
  /\ apc' = "done"
  /\ actionResult' = result
  /\ skuIdx' = 0
  /\ searchCursor' = 0
  /\ variantsByProduct' = <<>>
  /\ writeIdx' = 0

\* removeSku / reassignSku up to the first search call, for a given form
SkuActionStarts(kind, raw) ==
  /\ Submit(kind, TrimFilter(raw))
  /\ IF TrimFilter(raw) = <<>>
     THEN ActionReturns(ActionFailure("No SKU(s) provided"))
     ELSE /\ apc' = "search"
          /\ skuIdx' = 1
          /\ variantsByProduct' = <<>>
          /\ writeIdx' = 0
          /\ UNCHANGED actionResult

\* the same for any form a client may post
StartSkuActionOf(kinds) ==
  \E kind \in kinds :
    \E raw \in SkuListChoices(store, [ skuList |-> skuList ]) :
      /\ route = "duplicate-skus"
      /\ SkuActionStarts(kind, raw)
      /\ UNCHANGED << loaderVars, csvVars, cmpVars, viewVars, uploadVars, bsVars >>

StartSkuAction == StartSkuActionOf({ "removeSku", "reassignSku" })
\* the "Re-assign SKU" button alone
StartReassignSku == StartSkuActionOf({ "reassignSku" })

\* the edges of one search page folded into variantsByProduct
RECURSIVE CollectEdges(_, _, _, _, _)
CollectEdges(st, kind, currentSku, edges, m) ==
  IF edges = <<>> THEN m
  ELSE LET v == Head(edges)
           node == st[v]
           newSkuValue == IF kind = "reassignSku"
                          THEN NewSkuValue(Gid(v), node.sku.str) ELSE <<>>
           m1 == IF Falsy(node.sku) \/ Trim(node.sku.str) # currentSku THEN m
                 ELSE GroupPush(m, ProductOf(v), [ id |-> Gid(v), sku |-> newSkuValue ])
       IN CollectEdges(st, kind, currentSku, Tail(edges), m1)

\* every input of a product -> inputs Map
AllInputs(m) == UNION { { m[i].inputs[j] : j \in 1..Len(m[i].inputs) } : i \in 1..Len(m) }

\* one iteration of the search loop, and what follows the loops when it was the last
SearchPage ==
  /\ apc = "search"
  /\ \E outcome \in { "page", "noConnection", "errors", "thrown" } :
       LET currentSku == skuList[skuIdx]
           conn == SearchPageOf(store, currentSku, searchCursor)
           m == IF outcome = "page"
                THEN CollectEdges(store, actionType, currentSku, conn.edges, variantsByProduct)
                ELSE variantsByProduct
           more == outcome = "page" /\ conn.hasNextPage
       IN CASE outcome = "errors" ->
                 ActionReturns(ActionFailure("GraphQL search error"))
            [] outcome = "thrown" ->
                 ActionReturns(ActionFailure("Error removing/re-assigning SKUs"))
            [] outcome \in { "page", "noConnection" } /\ more ->
                 /\ searchCursor' = conn.endCursor
                 /\ variantsByProduct' = m
                 /\ UNCHANGED << apc, skuIdx, writeIdx, actionResult >>
            [] outcome \in { "page", "noConnection" } /\ ~more /\ skuIdx < Len(skuList) ->
                 /\ skuIdx' = skuIdx + 1
                 /\ searchCursor' = 0
                 /\ variantsByProduct' = m
                 /\ UNCHANGED << apc, writeIdx, actionResult >>
            [] outcome \in { "page", "noConnection" } /\ ~more /\ skuIdx = Len(skuList) ->
                 IF m = <<>>
                 THEN ActionReturns(ActionFailure("No variants found for selected SKU(s)"))
                 ELSE /\ apc' = "write"
                      /\ writeIdx' = 1
                      /\ variantsByProduct' = m
                      /\ skuIdx' = 0
                      /\ searchCursor' = 0
                      /\ UNCHANGED actionResult
  /\ UNCHANGED << store, run, actionType, skuList, totalUpdated, failedCount, errors,
                  writeLog, clearedNow, prev >>
  /\ UNCHANGED << loaderVars, csvVars, cmpVars, viewVars, uploadVars, bsVars >>

\* productVariantsBulkUpdate applied to the store
ApplyInputs(st, inputs) ==
  [ v \in StoreVariants |->
      IF \E j \in 1..Len(inputs) : inputs[j].id = Gid(v)
      THEN [ st[v] EXCEPT !.sku = Str((CHOOSE e \in { inputs[j] : j \in 1..Len(inputs) } : e.id = Gid(v)).sku) ]
      ELSE st[v] ]

InputVariants(inputs) == { VariantOfGid(inputs[j].id) : j \in 1..Len(inputs) }

\* a write that reported errors: the action returns at once
WriteFailureReturns(msg) == ActionReturns(ActionFailure(msg))

\* mutant: a failed write reverts the products written before it
StoreRevertedOnFailure(st, log) ==
  [ v \in StoreVariants |->
      IF \E i \in 1..Len(log) :
           log[i].outcome = "ok" /\ v \in InputVariants(log[i].inputs)
      THEN [ st[v] EXCEPT !.sku = Null ] ELSE st[v] ]

\* the store when the action returns after a failed write: nothing is
\* written between the failure and the return
StoreOnFailure(st, log) == st

\* one iteration of the write loop of removeSku / reassignSku
WriteProduct ==
  /\ apc = "write"
  /\ actionType \in { "removeSku", "reassignSku" }
  /\ \E outcome \in { "ok", "errors", "userErrors", "thrown" } :
       LET entry == variantsByProduct[writeIdx]
           n == Len(entry.inputs)
       IN /\ writeLog' = Append(writeLog, [ productId |-> entry.productId,
                                              outcome |-> outcome,
                                              inputs |-> entry.inputs,
                                              updated |-> IF outcome = "ok" THEN n ELSE 0,
                                              messages |-> IF outcome = "ok" THEN <<>>
                                                           ELSE << outcome >> ])
          /\ IF outcome = "ok"
             THEN /\ store' = ApplyInputs(store, entry.inputs)
                  /\ totalUpdated' = totalUpdated + n
                  /\ clearedNow' = IF actionType = "removeSku"
                                   THEN clearedNow \cup InputVariants(entry.inputs)
                                   ELSE clearedNow
                  /\ IF writeIdx < Len(variantsByProduct)
                     THEN /\ writeIdx' = writeIdx + 1
                          /\ UNCHANGED << apc, actionResult, skuIdx, searchCursor,
                                          variantsByProduct >>
                     ELSE ActionReturns(ActionSuccess(totalUpdated + n))
             ELSE /\ WriteFailureReturns(outcome)
                  /\ store' = StoreOnFailure(store, writeLog)
                  /\ UNCHANGED << totalUpdated, clearedNow >>
  /\ UNCHANGED << run, actionType, skuList, failedCount, errors, prev >>
  /\ UNCHANGED << loaderVars, csvVars, cmpVars, viewVars, uploadVars, bsVars >>

Products == { ProductOf(v) : v \in StoreVariants }

\* the product id a form item carries for a variant: the one the page listed
\* it under (claimed = 0), or one and the same id for every item
FormProductId(v, claimed) == IF claimed = 0 THEN ProductOf(v) ELSE claimed

\* the selected variants grouped by the product id the form carries
RECURSIVE GroupSelection(_, _, _)
GroupSelection(sel, claimed, m) ==
  IF sel = <<>> THEN m
  ELSE GroupSelection(Tail(sel), claimed,
                      GroupPush(m, FormProductId(Head(sel), claimed),
                                [ id |-> Gid(Head(sel)), sku |-> <<>> ]))

\* deleteVariants / the missing-SKU update up to the first write call, for
\* a given form
GroupActionStarts(kind, groups) ==
  /\ Submit(kind, <<>>)
  /\ IF groups = <<>>
     THEN ActionReturns(ActionFailure(IF kind = "deleteVariants"
                                      THEN "No variant groups provided"
                                      ELSE "No variants provided."))
     ELSE /\ apc' = "write"
          /\ writeIdx' = 1
          /\ variantsByProduct' = groups
          /\ skuIdx' = 0
          /\ UNCHANGED actionResult

\* the same for any form a client may post
StartGroupActionOf(kinds) ==
  \E kind \in kinds :
    \E sel \in SUBSET StoreVariants, claimed \in { 0 } \cup Products :
      /\ kind = "deleteVariants" <=> route = "duplicate-skus"
      /\ kind = "updateMissing" <=> route = "missing-skus"
      /\ GroupActionStarts(kind, GroupSelection(SetToSeq(sel), claimed, <<>>))
      /\ UNCHANGED << loaderVars, csvVars, cmpVars, viewVars, uploadVars, bsVars >>

StartGroupAction == StartGroupActionOf({ "deleteVariants", "updateMissing" })
\* the missing-SKU update alone
StartUpdateMissing == StartGroupActionOf({ "updateMissing" })

\* the write API accepts variants that exist and belong to the product named
WriteAccepted(st, productId, inputs) ==
  \A v \in InputVariants(inputs) : st[v].alive /\ ProductOf(v) = productId

\* one iteration of the delete loop
DeleteProduct ==
  /\ apc = "write"
  /\ actionType = "deleteVariants"
  /\ \E outcome \in { "ok", "errors", "userErrors", "thrown" } :
       LET entry == variantsByProduct[writeIdx]
           n == Len(entry.inputs)
       IN /\ outcome = "ok" => WriteAccepted(store, entry.productId, entry.inputs)
          /\ writeLog' = Append(writeLog, [ productId |-> entry.productId,
                                              outcome |-> outcome,
                                              inputs |-> entry.inputs,
                                              updated |-> IF outcome = "ok" THEN n ELSE 0,
                                              messages |-> IF outcome = "ok" THEN <<>>
                                                           ELSE << outcome >> ])
          /\ IF outcome = "ok"
             THEN /\ store' = [ v \in StoreVariants |->
                                  IF v \in InputVariants(entry.inputs)
                                  THEN [ store[v] EXCEPT !.alive = FALSE ] ELSE store[v] ]
                  /\ totalUpdated' = totalUpdated + n
                  /\ IF writeIdx < Len(variantsByProduct)
                     THEN /\ writeIdx' = writeIdx + 1
                          /\ UNCHANGED << apc, actionResult, skuIdx, searchCursor,
                                          variantsByProduct >>
                     ELSE ActionReturns(ActionSuccess(totalUpdated + n))
             ELSE /\ WriteFailureReturns(outcome)
                  /\ UNCHANGED << store, totalUpdated >>
  /\ UNCHANGED << run, actionType, skuList, failedCount, errors, clearedNow, prev >>
  /\ UNCHANGED << loaderVars, csvVars, cmpVars, viewVars, uploadVars, bsVars >>

\* variantIds.map: the inputs of one product with their new SKU
RECURSIVE VariantsInput(_)
VariantsInput(inputs) ==
  IF inputs = <<>> THEN <<>>
  ELSE << [ id |-> Head(inputs).id, sku |-> NewSKU(Head(inputs).id, <<>>) ] >>
       \o VariantsInput(Tail(inputs))

UserErrorMessages == << "userError 1", "userError 2", "userError 3" >>

\* mutant: the error entries of a product carry another product's id
ErrorEntriesMisnamed(productId, messages) ==
  [ i \in 1..Len(messages) |-> [ productId |-> productId + 1, error |-> messages[i] ] ]

\* errors.push({ productId, error }) for each message
ErrorEntries(productId, messages) ==
  [ i \in 1..Len(messages) |-> [ productId |-> productId, error |-> messages[i] ] ]

\* one iteration of the update loop of the missing-SKU action
UpdateProduct ==
  /\ apc = "write"
  /\ actionType = "updateMissing"
  /\ \E outcome \in { "ok", "userErrors", "thrown" } :
     \E k \in 1..MaxUserErrors :
       LET entry == variantsByProduct[writeIdx]
           variantsInput == VariantsInput(entry.inputs)
           n == Len(variantsInput)
       IN \E u \in { 0, n - 1 } :
          LET updated == CASE outcome = "ok" -> variantsInput
                           [] outcome = "userErrors" -> SubSeq(variantsInput, 1, u)
                           [] outcome = "thrown" -> <<>>
              messages == CASE outcome = "ok" -> <<>>
                            [] outcome = "userErrors" -> SubSeq(UserErrorMessages, 1, k)
                            [] outcome = "thrown" -> << "thrown" >>
              failed == CASE outcome = "ok" -> 0
                          [] outcome = "userErrors" -> k
                          [] outcome = "thrown" -> n
          IN /\ outcome = "ok" => WriteAccepted(store, entry.productId, variantsInput)
             /\ outcome # "userErrors" => k = 1 /\ u = 0
             /\ WriteAccepted(store, entry.productId, updated)
             /\ writeLog' = Append(writeLog, [ productId |-> entry.productId,
                                                 outcome |-> outcome,
                                                 inputs |-> variantsInput,
                                                 updated |-> Len(updated),
                                                 messages |-> messages ])
             /\ store' = ApplyInputs(store, updated)
             /\ totalUpdated' = totalUpdated + Len(updated)
             /\ failedCount' = failedCount + failed
             /\ errors' = errors \o ErrorEntries(entry.productId, messages)
             /\ IF writeIdx < Len(variantsByProduct)
                THEN /\ writeIdx' = writeIdx + 1
                     /\ UNCHANGED << apc, actionResult, skuIdx, searchCursor,
                                     variantsByProduct >>
                ELSE ActionReturns(UpdateMissingResult(totalUpdated + Len(updated),
                                                       failedCount + failed,
                                                       errors \o ErrorEntries(entry.productId,
                                                                              messages)))
  /\ UNCHANGED << run, actionType, skuList, clearedNow, prev >>
  /\ UNCHANGED << loaderVars, csvVars, cmpVars, viewVars, uploadVars, bsVars >>

ActionNext ==
  StartSkuAction \/ SearchPage \/ WriteProduct \/ StartGroupAction \/ DeleteProduct
  \/ UpdateProduct

\* the action of the missing-SKU route alone
MissingActionNext == StartGroupAction \/ UpdateProduct

\* the operations that derive a new SKU, alone
ReassignNext ==
  StartReassignSku \/ SearchPage \/ WriteProduct \/ StartUpdateMissing \/ UpdateProduct

(***************************************************************************)
(* The two views that start bulk operations: the duplicate-SKU page with   *)
(* its confirmation dialog and the missing-SKU page.  One handler is one    *)
(* step, and an effect runs in the step that makes its condition true.     *)
(* The router publishes a fetcher's new state in a transition, so the      *)
(* render that follows a handler's own state updates may still see the     *)
(* fetcher as it was: idle, with the data of the previous operation.  The  *)
(* server action runs between the submission and the arrival of its        *)
(* response.                                                               *)
(***************************************************************************)
\* the rows the loader of the route lists for a store: variants whose SKU
\* another variant shares, or variants without a SKU
Rows(r, st) ==
  LET keyed == { v \in StoreVariants : st[v].alive /\ ~Falsy(OptTrim(st[v].sku)) }
  IN IF r = "missing-skus"
     THEN { [ variantId |-> v, sku |-> <<>> ] :
            v \in { w \in StoreVariants : st[w].alive /\ Falsy(OptTrim(st[w].sku)) } }
     ELSE { [ variantId |-> v, sku |-> Trim(st[v].sku.str) ] :
            v \in { w \in keyed :
                     \E x \in keyed \ { w } : Trim(st[x].sku.str) = Trim(st[w].sku.str) } }

RowSkus(rows) == { r.sku : r \in rows }
RowIds(rows) == { r.variantId : r \in rows }

\* duplicates.map((d) => d.sku): groups by size, larger first, ties in
\* order of first appearance
RECURSIVE SkusInOrder(_, _)
SkusInOrder(rows, skus) ==
  IF skus = {} THEN <<>>
  ELSE LET count(k) == Cardinality({ r \in rows : r.sku = k })
           first(k) == CHOOSE v \in RowIds({ r \in rows : r.sku = k }) :
                         \A r \in rows : r.sku = k => v <= r.variantId
           top == CHOOSE k \in skus :
                    \A j \in skus :
                      \/ count(k) > count(j)
                      \/ count(k) = count(j) /\ first(k) <= first(j)
       IN << top >> \o SkusInOrder(rows, skus \ { top })

\* buildSelectedSkuInfo().skus
BuildSelectedSkuInfo == SkusInOrder(duplicates, selectedSkus \cap RowSkus(duplicates))

\* getSelectedVariantsForSku(sku)
SelectedVariantsForSku(sku) == { p.variantId : p \in { q \in selectedVariants : q.sku = sku } }

NoVariantInfo == [ sku |-> <<>>, variantIds |-> {} ]

Toggle(S, x) == IF x \in S THEN S \ { x } ELSE S \cup { x }

\* the dialog (the blocking modal of the missing-SKU view) covers the page
\* while it is open
PageReachable ==
  IF route = "duplicate-skus" THEN ~showModal ELSE fetcherState = "idle"

\* mutant: the bulk buttons stay enabled while the dialog is open
BulkButtonsAlwaysEnabled == TRUE

\* disabled={showModal} / disabled={isUpdating} of the bulk buttons
BulkButtonsEnabled ==
  IF route = "duplicate-skus" THEN ~showModal ELSE fetcherState = "idle"

\* the Confirm and Cancel buttons exist in the dialog's "confirm" state
Confirming == showModal /\ modalState = "confirm"

InitView ==
  /\ duplicates = Rows(route, store)
  /\ selectedSkus = {}
  /\ selectedVariants = {}
  /\ showModal = FALSE
  /\ modalState = "confirm"
  /\ modalAction = "null"
  /\ selectedSkuInfo = <<>>
  /\ selectedVariantInfo = NoVariantInfo
  /\ fetcherState = "idle"
  /\ fetcherData = <<>>
  /\ clientError = "null"
  /\ handledFetcherResultRef = FALSE
  /\ resultsHandled = 0

\* toggleSkuSelection, selectAllSkus, clearAllSkus
ToggleSkuSelection ==
  /\ route = "duplicate-skus"
  /\ PageReachable
  /\ \E sku \in RowSkus(duplicates) : selectedSkus' = Toggle(selectedSkus, sku)
  /\ UNCHANGED << duplicates, selectedVariants, showModal, modalState, modalAction,
                  selectedSkuInfo, selectedVariantInfo, fetcherState, fetcherData,
                  clientError, handledFetcherResultRef, resultsHandled >>
  /\ UNCHANGED << loaderVars, actionVars, csvVars, cmpVars, uploadVars, bsVars >>

SelectAllSkus ==
  /\ route = "duplicate-skus"
  /\ PageReachable
  /\ duplicates # {}
  /\ \E all \in BOOLEAN :
       selectedSkus' = IF all THEN RowSkus(duplicates) ELSE {}
  /\ UNCHANGED << duplicates, selectedVariants, showModal, modalState, modalAction,
                  selectedSkuInfo, selectedVariantInfo, fetcherState, fetcherData,
                  clientError, handledFetcherResultRef, resultsHandled >>
  /\ UNCHANGED << loaderVars, actionVars, csvVars, cmpVars, uploadVars, bsVars >>

\* toggleVariantSelection(sku, variantId) / handleSelectVariant(variantId)
ToggleVariantSelection ==
  /\ PageReachable
  /\ \E r \in duplicates : selectedVariants' = Toggle(selectedVariants, r)
  /\ UNCHANGED << duplicates, selectedSkus, showModal, modalState, modalAction,
                  selectedSkuInfo, selectedVariantInfo, fetcherState, fetcherData,
                  clientError, handledFetcherResultRef, resultsHandled >>
  /\ UNCHANGED << loaderVars, actionVars, csvVars, cmpVars, uploadVars, bsVars >>

\* handleSelectAll of the missing-SKU view
HandleSelectAll ==
  /\ route = "missing-skus"
  /\ PageReachable
  /\ duplicates # {}
  /\ \E checked \in BOOLEAN :
       selectedVariants' = IF checked THEN duplicates ELSE {}
  /\ UNCHANGED << duplicates, selectedSkus, showModal, modalState, modalAction,
                  selectedSkuInfo, selectedVariantInfo, fetcherState, fetcherData,
                  clientError, handledFetcherResultRef, resultsHandled >>
  /\ UNCHANGED << loaderVars, actionVars, csvVars, cmpVars, uploadVars, bsVars >>

\* handleBulkRemoveSkuClick / handleBulkReassignSkuClick
HandleBulkSkuClick ==
  /\ route = "duplicate-skus"
  /\ BulkButtonsEnabled
  /\ BuildSelectedSkuInfo # <<>>
  /\ \E kind \in { "removeSku", "reassignSku" } : modalAction' = kind
  /\ selectedSkuInfo' = BuildSelectedSkuInfo
  /\ selectedVariantInfo' = NoVariantInfo
  /\ modalState' = "confirm"
  /\ showModal' = TRUE
  /\ UNCHANGED << duplicates, selectedSkus, selectedVariants, fetcherState, fetcherData,
                  clientError, handledFetcherResultRef, resultsHandled >>
  /\ UNCHANGED << loaderVars, actionVars, csvVars, cmpVars, uploadVars, bsVars >>

\* handleBulkDeleteVariantsClick(sku, getSelectedVariantsForSku(sku))
HandleBulkDeleteVariantsClick ==
  /\ route = "duplicate-skus"
  /\ BulkButtonsEnabled
  /\ \E sku \in RowSkus(duplicates) :
       LET found == { v \in SelectedVariantsForSku(sku) :
                        [ variantId |-> v, sku |-> sku ] \in duplicates }
       IN /\ found # {}
          /\ selectedVariantInfo' = [ sku |-> sku, variantIds |-> found ]
  /\ selectedSkuInfo' = <<>>
  /\ modalAction' = "deleteVariants"
  /\ modalState' = "confirm"
  /\ showModal' = TRUE
  /\ UNCHANGED << duplicates, selectedSkus, selectedVariants, fetcherState, fetcherData,
                  clientError, handledFetcherResultRef, resultsHandled >>
  /\ UNCHANGED << loaderVars, actionVars, csvVars, cmpVars, uploadVars, bsVars >>

\* the completion effect of the duplicate-SKU view
DuplicateCompletion(data) ==
  /\ selectedSkus' = IF data.success /\ modalAction \in { "removeSku", "reassignSku" }
                     THEN {} ELSE selectedSkus
  /\ selectedVariants' =
       IF data.success /\ modalAction = "deleteVariants"
          /\ selectedVariantInfo # NoVariantInfo
       THEN { p \in selectedVariants : p.sku # selectedVariantInfo.sku }
       ELSE selectedVariants
  /\ showModal' = FALSE
  /\ selectedSkuInfo' = <<>>
  /\ selectedVariantInfo' = NoVariantInfo
  /\ modalAction' = "null"
  /\ modalState' = "confirm"
  /\ UNCHANGED << clientError, handledFetcherResultRef, resultsHandled >>

\* handleConfirm: the dialog turns to "deleting" and the form is posted.  In
\* the render that follows, the completion effect finds modalState
\* "deleting"; when that render still sees the fetcher idle with the previous
\* operation's data (early), the effect runs on that data
HandleConfirmWithin(limit) ==
  /\ route = "duplicate-skus"
  /\ Confirming
  /\ run < limit
  /\ \/ /\ modalAction \in { "removeSku", "reassignSku" }
        /\ selectedSkuInfo # <<>>
        /\ SkuActionStarts(modalAction, selectedSkuInfo)
     \/ /\ modalAction = "deleteVariants"
        /\ selectedVariantInfo # NoVariantInfo
        /\ GroupActionStarts("deleteVariants",
                             GroupSelection(SetToSeq(selectedVariantInfo.variantIds),
                                            0, <<>>))
  /\ \E early \in BOOLEAN :
       IF early /\ fetcherState = "idle" /\ fetcherData # <<>>
       THEN DuplicateCompletion(fetcherData[1])
       ELSE /\ modalState' = "deleting"
            /\ UNCHANGED << selectedSkus, selectedVariants, showModal, modalAction,
                            selectedSkuInfo, selectedVariantInfo, clientError,
                            handledFetcherResultRef, resultsHandled >>
  /\ fetcherState' = "submitting"
  /\ UNCHANGED << duplicates, fetcherData >>
  /\ UNCHANGED << loaderVars, csvVars, cmpVars, uploadVars, bsVars >>

HandleConfirm == HandleConfirmWithin(MaxOperations)
\* the same for an operator who runs several operations in one visit
HandleConfirmRepeated == HandleConfirmWithin(MaxRepeatedOperations)

\* handleCancelDelete
HandleCancelDelete ==
  /\ route = "duplicate-skus"
  /\ Confirming
  /\ showModal' = FALSE
  /\ selectedSkuInfo' = <<>>
  /\ selectedVariantInfo' = NoVariantInfo
  /\ modalAction' = "null"
  /\ modalState' = "confirm"
  /\ UNCHANGED << duplicates, selectedSkus, selectedVariants, fetcherState, fetcherData,
                  clientError, handledFetcherResultRef, resultsHandled >>
  /\ UNCHANGED << loaderVars, actionVars, csvVars, cmpVars, uploadVars, bsVars >>

\* handleBulkUpdate of the missing-SKU view: the form is posted at once; the
\* effect on fetcher.state resets the result flag and the client error
HandleBulkUpdate ==
  /\ route = "missing-skus"
  /\ BulkButtonsEnabled
  /\ run < MaxOperations
  /\ selectedVariants # {}
  /\ selectedVariants \subseteq duplicates
  /\ GroupActionStarts("updateMissing",
                       GroupSelection(SetToSeq(RowIds(selectedVariants)), 0, <<>>))
  /\ fetcherState' = "submitting"
  /\ handledFetcherResultRef' = FALSE
  /\ resultsHandled' = 0
  /\ clientError' = "null"
  /\ UNCHANGED << duplicates, selectedSkus, selectedVariants, showModal, modalState,
                  modalAction, selectedSkuInfo, selectedVariantInfo, fetcherData >>
  /\ UNCHANGED << loaderVars, csvVars, cmpVars, uploadVars, bsVars >>

\* the action has returned: fetcher.data holds its result while the loaders
\* are run again
ResponseArrives ==
  /\ fetcherState = "submitting"
  /\ apc = "done"
  /\ fetcherState' = "loading"
  /\ fetcherData' = << actionResult >>
  /\ UNCHANGED << duplicates, selectedSkus, selectedVariants, showModal, modalState,
                  modalAction, selectedSkuInfo, selectedVariantInfo, clientError,
                  handledFetcherResultRef, resultsHandled >>
  /\ UNCHANGED << loaderVars, actionVars, csvVars, cmpVars, uploadVars, bsVars >>

\* mutant: the completion effect has no one-time guard
NeverHandled == FALSE

\* if (handledFetcherResultRef.current) return
AlreadyHandled == handledFetcherResultRef

\* the completion effect of the missing-SKU view: past its guard it shows
\* the error, or clears the selection and calls revalidate
MissingCompletion(data) ==
  /\ handledFetcherResultRef' = TRUE
  /\ IF AlreadyHandled
     THEN UNCHANGED << clientError, selectedVariants, resultsHandled >>
     ELSE /\ resultsHandled' = IF resultsHandled < MaxHandled
                               THEN resultsHandled + 1 ELSE MaxHandled
          /\ IF ~data.success
             THEN /\ clientError' = (IF data.error = "null" THEN "Update failed."
                                     ELSE data.error)
                  /\ UNCHANGED selectedVariants
             ELSE /\ selectedVariants' = {}
                  /\ UNCHANGED clientError
  /\ UNCHANGED << selectedSkus, showModal, modalState, modalAction, selectedSkuInfo,
                  selectedVariantInfo >>

\* the loaders have run again and the fetcher is idle: the page lists the
\* store as it is now and the completion effect runs
FetcherIdle ==
  /\ fetcherState = "loading"
  /\ fetcherState' = "idle"
  /\ duplicates' = Rows(route, store)
  /\ IF route = "duplicate-skus"
     THEN IF modalState = "deleting"
          THEN DuplicateCompletion(fetcherData[1])
          ELSE UNCHANGED << selectedSkus, selectedVariants, showModal, modalState,
                            modalAction, selectedSkuInfo, selectedVariantInfo,
                            clientError, handledFetcherResultRef, resultsHandled >>
     ELSE MissingCompletion(fetcherData[1])
  /\ UNCHANGED fetcherData
  /\ UNCHANGED << loaderVars, actionVars, csvVars, cmpVars, uploadVars, bsVars >>

\* the completion effect runs again while the fetcher is idle with the same
\* data: revalidator, one of its dependencies, changes with every revalidation
EffectReruns ==
  /\ route = "missing-skus"
  /\ fetcherState = "idle"
  /\ fetcherData # <<>>
  /\ MissingCompletion(fetcherData[1])
  /\ UNCHANGED << duplicates, fetcherState, fetcherData >>
  /\ UNCHANGED << loaderVars, actionVars, csvVars, cmpVars, uploadVars, bsVars >>

\* what the page shows in its critical-tone text
ErrorShown ==
  IF route = "duplicate-skus"
  THEN fetcherData # <<>> /\ fetcherData[1].error # "null" /\ ~showModal
  ELSE clientError # "null"

ViewNext ==
  ToggleSkuSelection \/ SelectAllSkus \/ ToggleVariantSelection \/ HandleSelectAll
  \/ HandleBulkSkuClick \/ HandleBulkDeleteVariantsClick \/ HandleConfirm
  \/ HandleCancelDelete \/ HandleBulkUpdate
  \/ SearchPage \/ WriteProduct \/ DeleteProduct \/ UpdateProduct
  \/ ResponseArrives \/ FetcherIdle \/ EffectReruns

\* the duplicate-SKU view alone
DuplicateViewNext ==
  ToggleSkuSelection \/ SelectAllSkus \/ ToggleVariantSelection
  \/ HandleBulkSkuClick \/ HandleBulkDeleteVariantsClick \/ HandleConfirmRepeated
  \/ HandleCancelDelete
  \/ SearchPage \/ WriteProduct \/ DeleteProduct
  \/ ResponseArrives \/ FetcherIdle

(***************************************************************************)
(* parseCSVLine of the CSV comparison and fulfil-from routes.              *)
(***************************************************************************)
Quote == "\""
Comma == ","

\* mutant: quotes are ordinary characters and every comma separates
RECURSIVE ParseNoQuotes(_, _, _, _, _)
ParseNoQuotes(row, i, current, inQuotes, result) ==
  IF i > Len(row) THEN Append(result, Trim(current))
  ELSE IF row[i] = Comma
       THEN ParseNoQuotes(row, i + 1, <<>>, inQuotes, Append(result, Trim(current)))
       ELSE ParseNoQuotes(row, i + 1, Append(current, row[i]), inQuotes, result)

\* the for loop of parseCSVLine from index i on, and the final push
RECURSIVE ParseFrom(_, _, _, _, _)
ParseFrom(row, i, current, inQuotes, result) ==
  IF i > Len(row) THEN Append(result, Trim(current))
  ELSE LET char == row[i]
           nextChar == IF i + 1 <= Len(row) THEN row[i + 1] ELSE "undefined"
       IN IF char = Quote
          THEN IF inQuotes /\ nextChar = Quote
               THEN ParseFrom(row, i + 2, Append(current, Quote), inQuotes, result)
               ELSE ParseFrom(row, i + 1, current, ~inQuotes, result)
          ELSE IF char = Comma /\ ~inQuotes
               THEN ParseFrom(row, i + 1, <<>>, inQuotes, Append(result, Trim(current)))
               ELSE ParseFrom(row, i + 1, Append(current, char), inQuotes, result)

parseCSVLine(row) == ParseFrom(row, 1, <<>>, FALSE, <<>>)

CsvChars == { Quote, Comma, "a", " " }

\* "A, B",C
RowQuotedComma == << Quote, "A", Comma, " ", "B", Quote, Comma, "C" >>
\* "say ""hi"""
RowEscapedQuote ==
  << Quote, "s", "a", "y", " ", Quote, Quote, "h", "i", Quote, Quote, Quote >>

CsvRows ==
  UNION { [1..n -> CsvChars] : n \in 0..MaxLine } \cup { RowQuotedComma, RowEscapedQuote }

\* lines.map / for each line: parseCSVLine(line)
ParseLine ==
  /\ cpc = "row"
  /\ fields' = parseCSVLine(line)
  /\ cpc' = "parsed"
  /\ UNCHANGED << line, loaderVars, actionVars, cmpVars, viewVars, uploadVars, bsVars >>

(***************************************************************************)
(* The action of the CSV comparison route: fetch every variant, then       *)
(* classify each CSV row against the variant with the same SKU.            *)
(***************************************************************************)
Dot == "."

\* the rows the form can carry: a SKU column and a GTIN column
CsvSkuPool == { Str(<<"S">>), Str(<<"T">>) }
CsvGtinPool ==
  { Null, Str(<<"1", "2", "3">>), Str(<<"1", "2", "3", Dot, "0">>),
    Str(<<"1", "2", "3", Dot, "5">>) }
CsvRowPool ==
  [ SKU : CsvSkuPool, GTIN : CsvGtinPool ] \cup { [ SKU |-> Str(<<" ">>), GTIN |-> Null ] }
CsvRowLists == UNION { [1..n -> CsvRowPool] : n \in 0..MaxCsvRows }

\* the variants the store can return: sku and barcode as stored
CmpVariantPool ==
  [ sku : { Str(<<"S", " ">>) },
    barcode : { Null, Str(<<"1", "2", "3">>), Str(<<"1", "2", "4", " ">>) } ]
  \cup { [ sku |-> Null, barcode |-> Null ] }
CmpPages == UNION { [1..n -> CmpVariantPool] : n \in 0..MaxPageVariants }
\* longer pages, in which several variants have the same SKU
SharedPages == UNION { [1..n -> CmpVariantPool] : n \in 0..MaxSharedVariants }

\* s.includes('.')
Includes(t, c) == \E i \in DOMAIN t : t[i] = c
\* s.split('.')[0]
SplitFirst(t, c) ==
  IF Includes(t, c)
  THEN SubSeq(t, 1, (CHOOSE i \in DOMAIN t : t[i] = c /\ \A j \in 1..(i - 1) : t[j] # c) - 1)
  ELSE t

\* mutant: the GTIN is compared as it was uploaded
CsvGTINAsGiven(gtin) == OptTrim(gtin)

\* csvRow.GTIN?.toString().trim(), cut at the first decimal point
CsvGTIN(gtin) ==
  LET t == OptTrim(gtin)
  IN IF ~Falsy(t) /\ Includes(t.str, Dot) THEN Str(SplitFirst(t.str, Dot)) ELSE t

\* variant.barcode?.trim() || null
TrimOrNull(v) == IF Falsy(OptTrim(v)) THEN Null ELSE OptTrim(v)

\* shopifyVariants.set(sku, details): a later variant with the same SKU
\* replaces the details and keeps the key's place
VariantMapHas(m, sku) == \E i \in 1..Len(m) : m[i].sku = sku
VariantMapGet(m, sku) == m[CHOOSE i \in 1..Len(m) : m[i].sku = sku]
\* mutant: the first variant with a SKU is kept
VariantMapSetOnce(m, sku, details) ==
  IF VariantMapHas(m, sku) THEN m ELSE Append(m, details)

VariantMapSet(m, sku, details) ==
  IF VariantMapHas(m, sku)
  THEN [ i \in 1..Len(m) |-> IF m[i].sku = sku THEN details ELSE m[i] ]
  ELSE Append(m, details)

\* the variants of one page folded into shopifyVariants
RECURSIVE CollectVariants(_, _)
CollectVariants(m, page) ==
  IF page = <<>> THEN m
  ELSE LET variant == Head(page)
           sku == OptTrim(variant.sku)
       IN CollectVariants(
            IF Falsy(sku) THEN m
            ELSE VariantMapSet(m, sku.str,
                               [ sku |-> sku.str, barcode |-> TrimOrNull(variant.barcode) ]),
            Tail(page))

NoBuckets ==
  [ matched |-> <<>>, skuNotFound |-> <<>>, barcodeMismatch |-> <<>>,
    skuFoundBarcodeMatch |-> <<>> ]

\* the body of the loop over csvRows for row i
ClassifyRow(m, rows, i, results) ==
  LET csvSKU == OptTrim(rows[i].SKU)
      csvGTIN == CsvGTIN(rows[i].GTIN)
  IN IF Falsy(csvSKU) THEN results
     ELSE IF ~VariantMapHas(m, csvSKU.str)
     THEN [ results EXCEPT !.skuNotFound =
              Append(@, [ row |-> i, csvSKU |-> csvSKU, csvGTIN |-> csvGTIN,
                          barcode |-> Null ]) ]
     ELSE LET shopifyBarcode == VariantMapGet(m, csvSKU.str).barcode
              entry == [ row |-> i, csvSKU |-> csvSKU, csvGTIN |-> csvGTIN,
                         barcode |-> shopifyBarcode ]
          IN IF ~Falsy(csvGTIN) /\ ~Falsy(shopifyBarcode)
             THEN IF csvGTIN = shopifyBarcode
                  THEN [ results EXCEPT !.skuFoundBarcodeMatch = Append(@, entry) ]
                  ELSE [ results EXCEPT !.barcodeMismatch = Append(@, entry) ]
             ELSE IF Falsy(csvGTIN)
                  THEN [ results EXCEPT !.matched =
                           Append(@, [ entry EXCEPT !.csvGTIN = Str(<<"N", "/", "A">>) ]) ]
                  ELSE [ results EXCEPT !.matched = Append(@, entry) ]

RECURSIVE ClassifyFrom(_, _, _, _)
ClassifyFrom(m, rows, i, results) ==
  IF i > Len(rows) THEN results
  ELSE ClassifyFrom(m, rows, i + 1, ClassifyRow(m, rows, i, results))

CompareFailure(msg) ==
  [ success |-> FALSE, error |-> msg, results |-> NoBuckets,
    totalCSVRows |-> 0, totalShopifyVariants |-> 0 ]
CompareSuccess(m, rows) ==
  [ success |-> TRUE, error |-> "null", results |-> ClassifyFrom(m, rows, 1, NoBuckets),
    totalCSVRows |-> Len(rows), totalShopifyVariants |-> Len(m) ]

\* the locals of the comparison once it has returned without comparing
CompareFrameGone ==
  /\ cmpHasNextPage' = FALSE
  /\ cmpCursor' = 0
  /\ shopifyVariants' = <<>>
  /\ cmpProducts' = <<>>

\* the request carries no csvData: the action returns before any fetch
CompareNoData ==
  /\ cmpPc = "loop"
  /\ ~csvDataGiven
  /\ cmpPc' = "failed"
  /\ cmpResult' = CompareFailure("No CSV data provided")
  /\ CompareFrameGone
  /\ UNCHANGED << csvDataGiven, csvRows, cmpFetches >>
  /\ UNCHANGED << loaderVars, actionVars, csvVars, viewVars, uploadVars, bsVars >>

\* one iteration of the fetch loop that fails: json.errors, or a thrown
\* error (the call itself, or a response without products data) caught by
\* the catch around the whole comparison
CompareFetchFails ==
  /\ cmpPc = "loop"
  /\ csvDataGiven
  /\ cmpHasNextPage
  /\ cmpFetches < MaxFetches
  /\ cmpFetches' = cmpFetches + 1
  /\ cmpPc' = "failed"
  /\ \E msg \in { "GraphQL error", "Error processing CSV" } :
       cmpResult' = CompareFailure(msg)
  /\ CompareFrameGone
  /\ UNCHANGED << csvDataGiven, csvRows >>
  /\ UNCHANGED << loaderVars, actionVars, csvVars, viewVars, uploadVars, bsVars >>

\* one iteration of the fetch loop, and the comparison when it was the last;
\* the locals are kept as they were when the action returned
CompareFetchPageFrom(pages) ==
  /\ cmpPc = "loop"
  /\ csvDataGiven
  /\ cmpHasNextPage
  /\ cmpFetches < MaxFetches
  /\ cmpFetches' = cmpFetches + 1
  /\ \E page \in pages, more \in BOOLEAN :
       LET m == CollectVariants(shopifyVariants, page)
       IN IF more
          THEN /\ cmpHasNextPage' = TRUE
               /\ cmpCursor' = EndCursor(page, cmpFetches + 1)
               /\ shopifyVariants' = m
               /\ cmpProducts' = <<>>
               /\ UNCHANGED << cmpPc, cmpResult >>
          ELSE /\ cmpPc' = "returned"
               /\ cmpResult' = CompareSuccess(m, csvRows)
               /\ cmpHasNextPage' = FALSE
               /\ cmpCursor' = 0
               /\ shopifyVariants' = m
               /\ cmpProducts' = page
  /\ UNCHANGED << csvDataGiven, csvRows >>
  /\ UNCHANGED << loaderVars, actionVars, csvVars, viewVars, uploadVars, bsVars >>

CompareFetchPage == CompareFetchPageFrom(CmpPages)
\* the same over a store whose pages hold several variants with one SKU
SharedSkuFetchPage == CompareFetchPageFrom(SharedPages)

CompareNext == CompareNoData \/ CompareFetchFails \/ CompareFetchPage
SharedSkuNext == CompareFetchFails \/ SharedSkuFetchPage

(***************************************************************************)
(* The upload handler of the CSV-comparison and fulfil-from views: the     *)
(* file is read, its lines are parsed inside a try block whose last        *)
(* statement posts the rows.  reader.onload is one step.                   *)
(***************************************************************************)
UploadRoutes == { "csv-comparison", "fulfil-from" }

HeaderLine == << "S", "K", "U", Comma, "G", "T", "I", "N" >>
\* S,123 / a blank line / a line without a SKU
UploadLinePool == { << "S", Comma, "1", "2", "3" >>, << " " >>, << Comma, "1" >> }
UploadTexts ==
  { << HeaderLine >> \o ls : ls \in UNION { [1..n -> UploadLinePool] : n \in 0..MaxUploadLines } }

\* row[header] = values[index] || "" for the header named: the last column
\* of that name wins; Null when no column has the name
RowField(headers, values, name) ==
  LET at == { i \in 1..Len(headers) : headers[i] = name }
  IN IF at = {} THEN Null
     ELSE LET i == CHOOSE k \in at : \A j \in at : j <= k
          IN IF i <= Len(values) THEN Str(values[i]) ELSE Str(<<>>)

\* the for loop over lines[i], i >= 1: blank lines and rows without a SKU
\* are left out
RECURSIVE UploadRowsFrom(_, _, _)
UploadRowsFrom(lines, i, headers) ==
  IF i > Len(lines) THEN <<>>
  ELSE LET values == parseCSVLine(lines[i])
           row == [ SKU |-> RowField(headers, values, << "S", "K", "U" >>),
                    GTIN |-> RowField(headers, values, << "G", "T", "I", "N" >>) ]
       IN (IF Trim(lines[i]) = <<>> \/ Falsy(OptTrim(row.SKU)) THEN <<>> ELSE << row >>)
          \o UploadRowsFrom(lines, i + 1, headers)

UploadRows(lines) == UploadRowsFrom(lines, 2, parseCSVLine(lines[1]))

ParseErrorText == "Error parsing CSV file. Please check the file format."

UploadAtRest ==
  /\ csvFile = <<>>
  /\ filesChosen = 0
  /\ upc = "idle"
  /\ alerted = "null"

\* isProcessing: the button is disabled while the request is in flight
IsProcessing == cmpPc = "loop"

\* handleFileChange
HandleFileChange ==
  /\ route \in UploadRoutes
  /\ filesChosen < MaxFiles
  /\ upc # "reading"
  /\ \E text \in UploadTexts : csvFile' = << text >>
  /\ filesChosen' = filesChosen + 1
  /\ UNCHANGED << upc, alerted >>
  /\ UNCHANGED << loaderVars, actionVars, csvVars, cmpVars, viewVars, bsVars >>

\* handleUpload up to reader.readAsText
HandleUpload ==
  /\ route \in UploadRoutes
  /\ upc # "reading"
  /\ ~IsProcessing
  /\ IF csvFile = <<>>
     THEN /\ alerted' = "Please select a CSV file first"
          /\ UNCHANGED upc
     ELSE /\ upc' = "reading"
          /\ alerted' = "null"
  /\ UNCHANGED << csvFile, filesChosen >>
  /\ UNCHANGED << loaderVars, actionVars, csvVars, cmpVars, viewVars, bsVars >>

\* reader.onerror
ReaderOnError ==
  /\ upc = "reading"
  /\ upc' = "idle"
  /\ alerted' = "Error reading file"
  /\ UNCHANGED << csvFile, filesChosen >>
  /\ UNCHANGED << loaderVars, actionVars, csvVars, cmpVars, viewVars, bsVars >>

\* mutant: the rows are posted whether or not the parsing threw
SubmitReachedAnyway(thrown) == TRUE

\* fetcher.submit is the last statement of the try block: it is reached
\* when nothing before it threw
SubmitReached(thrown) == ~thrown

\* the request the posted form starts
RequestStarts(rows) ==
  IF route = "csv-comparison"
  THEN /\ csvDataGiven' = TRUE
       /\ csvRows' = rows
       /\ cmpPc' = "loop"
       /\ cmpFetches' = 0
       /\ cmpHasNextPage' = TRUE
       /\ cmpCursor' = 0
       /\ shopifyVariants' = <<>>
       /\ cmpProducts' = <<>>
       /\ UNCHANGED cmpResult
  ELSE UNCHANGED cmpVars

\* reader.onload: the text is split and parsed; an exception thrown on the
\* way is caught and alerted
ReaderOnLoad ==
  /\ upc = "reading"
  /\ \E thrown \in BOOLEAN :
       /\ IF thrown
          THEN /\ alerted' = ParseErrorText
               /\ upc' = "failed"
          ELSE /\ alerted' = "null"
               /\ upc' = "submitted"
       /\ IF SubmitReached(thrown)
          THEN RequestStarts(UploadRows(csvFile[1]))
          ELSE UNCHANGED cmpVars
  /\ UNCHANGED << csvFile, filesChosen >>
  /\ UNCHANGED << loaderVars, actionVars, csvVars, viewVars, bsVars >>

\* the posted form always carries csvData, so the comparison fetches
UploadNext ==
  HandleFileChange \/ HandleUpload \/ ReaderOnError \/ ReaderOnLoad
  \/ CompareFetchFails \/ CompareFetchPage

(***************************************************************************)
(* The action of the best-sellers route: the products the operator         *)
(* selected are added to a collection, or replace its products.  The       *)
(* action asks for the collection's products with products(first: 250);    *)
(* CollectionFirst stands for that number.  productIds is a set here: the  *)
(* filter and the mutations do not depend on its order.                    *)
(***************************************************************************)
CollectionFirst == 2
BsProductIds == 1..MaxCollectionProducts

NoRequest == [ productIds |-> {}, assignmentMode |-> "none" ]
NoPrevRequest == [ productIds |-> {}, assignmentMode |-> "none", success |-> FALSE ]

BestSellersAtRest ==
  /\ collection = {}
  /\ assignments = 0
  /\ bsRequest = NoRequest
  /\ existingProductIds = {}
  /\ addCalls = <<>>
  /\ bsResult = FALSE
  /\ bsPrev = NoPrevRequest

\* what products(first: 250) can deliver of a collection: all of it, or 250
\* of its products in the order the store chooses
FirstProducts(coll) ==
  { S \in SUBSET coll :
      Cardinality(S) = (IF Cardinality(coll) <= CollectionFirst
                        THEN Cardinality(coll) ELSE CollectionFirst) }

\* collectionJson.data?.collection?.products?.edges?.map(e => e.node.id) || []
\* for the response of a collection that exists
FetchedMemberships(coll) == FirstProducts(coll)

\* productIds.filter(id => !existingProductIdsSet.has(id))
ProductsToAdd(productIds, existing) == productIds \ existing

\* the outcomes of a mutation call: done, userErrors, a thrown error
MutationOutcomes == { "ok", "userErrors", "thrown" }
ReportsSuccess(outcome) == outcome = "ok"

\* the request is recorded and the one before it remembered
BsRequestServed(productIds, mode) ==
  /\ assignments' = assignments + 1
  /\ bsRequest' = [ productIds |-> productIds, assignmentMode |-> mode ]
  /\ bsPrev' = [ productIds |-> bsRequest.productIds,
                 assignmentMode |-> bsRequest.assignmentMode,
                 success |-> bsResult ]

\* the action in add mode
AddToCollection ==
  /\ assignments < MaxAssignments
  /\ \E productIds \in SUBSET BsProductIds :
       /\ BsRequestServed(productIds, "add")
       /\ \/ \* the collection query throws
             /\ existingProductIds' = {}
             /\ addCalls' = <<>>
             /\ bsResult' = FALSE
             /\ UNCHANGED collection
          \/ \E existing \in FetchedMemberships(collection) :
               LET productsToAdd == ProductsToAdd(productIds, existing)
               IN /\ existingProductIds' = existing
                  /\ IF productsToAdd = {}
                     THEN /\ addCalls' = <<>>
                          /\ bsResult' = TRUE
                          /\ UNCHANGED collection
                     ELSE \E outcome \in MutationOutcomes :
                            /\ addCalls' = << productsToAdd >>
                            /\ bsResult' = ReportsSuccess(outcome)
                            /\ collection' = IF outcome = "ok"
                                             THEN collection \cup productsToAdd
                                             ELSE collection
  /\ UNCHANGED << loaderVars, actionVars, csvVars, cmpVars, viewVars, uploadVars >>

\* the action in replace mode: the fetched products are removed, then the
\* selected ones are added
ReplaceCollection ==
  /\ assignments < MaxAssignments
  /\ \E productIds \in SUBSET BsProductIds :
       /\ BsRequestServed(productIds, "replace")
       /\ \/ /\ existingProductIds' = {}
             /\ addCalls' = <<>>
             /\ bsResult' = FALSE
             /\ UNCHANGED collection
          \/ \E existing \in FetchedMemberships(collection) :
             \E removal \in (IF existing = {} THEN { "none" } ELSE MutationOutcomes) :
               LET remaining == IF removal = "ok" THEN collection \ existing ELSE collection
               IN /\ existingProductIds' = existing
                  /\ IF removal \in { "userErrors", "thrown" }
                     THEN /\ addCalls' = <<>>
                          /\ bsResult' = FALSE
                          /\ collection' = remaining
                     ELSE \E outcome \in MutationOutcomes :
                            /\ addCalls' = << productIds >>
                            /\ bsResult' = ReportsSuccess(outcome)
                            /\ collection' = IF outcome = "ok"
                                             THEN remaining \cup productIds
                                             ELSE remaining
  /\ UNCHANGED << loaderVars, actionVars, csvVars, cmpVars, viewVars, uploadVars >>

BestSellersNext == AddToCollection \/ ReplaceCollection

(***************************************************************************)
(* Specifications: one per machine; the machines a specification does not  *)
(* run stay at rest.                                                       *)
(***************************************************************************)
LoaderAtRest ==
  /\ keyPool = {}
  /\ quota = 0
  /\ fetches = 0
  /\ scanned = <<>>
  /\ discarded = 0
  /\ lpc = "idle"
  /\ cursor = 0
  /\ hasNextPage = FALSE
  /\ fetchedProducts = 0
  /\ skuMap = <<>>
  /\ missingSKUs = <<>>
  /\ totalVariants = 0
  /\ variantsWithSKUs = 0
  /\ loaderResult = NoResult

ActionsAtRest ==
  /\ store = [ v \in StoreVariants |-> [ sku |-> Null, alive |-> TRUE ] ]
  /\ ActionIdle

CsvAtRest ==
  /\ line = <<>>
  /\ fields = <<>>
  /\ cpc = "idle"

CompareAtRest ==
  /\ csvDataGiven = FALSE
  /\ csvRows = <<>>
  /\ cmpPc = "idle"
  /\ cmpFetches = 0
  /\ cmpHasNextPage = FALSE
  /\ cmpCursor = 0
  /\ shopifyVariants = <<>>
  /\ cmpProducts = <<>>
  /\ cmpResult = CompareFailure("pending")

ViewAtRest ==
  /\ duplicates = {}
  /\ selectedSkus = {}
  /\ selectedVariants = {}
  /\ showModal = FALSE
  /\ modalState = "confirm"
  /\ modalAction = "null"
  /\ selectedSkuInfo = <<>>
  /\ selectedVariantInfo = NoVariantInfo
  /\ fetcherState = "idle"
  /\ fetcherData = <<>>
  /\ clientError = "null"
  /\ handledFetcherResultRef = FALSE
  /\ resultsHandled = 0

InitLoader ==
  /\ \E r \in Routes : LoaderStart(r, Keys, MaxVariants)
  /\ ActionsAtRest
  /\ CsvAtRest
  /\ CompareAtRest
  /\ ViewAtRest
  /\ UploadAtRest
  /\ BestSellersAtRest
SpecLoader == InitLoader /\ [][LoaderNext]_vars

InitSort ==
  /\ \E r \in DuplicateRoutes : LoaderStart(r, SortKeys, MaxSortVariants)
  /\ ActionsAtRest
  /\ CsvAtRest
  /\ CompareAtRest
  /\ ViewAtRest
  /\ UploadAtRest
  /\ BestSellersAtRest
SpecSort == InitSort /\ [][LoaderNext]_vars

InitActions ==
  /\ store \in [ StoreVariants -> [ sku : StoreSkus, alive : { TRUE } ] ]
  /\ ActionIdle
  /\ route \in { "duplicate-skus", "missing-skus" }
  /\ LoaderAtRest
  /\ CsvAtRest
  /\ CompareAtRest
  /\ ViewAtRest
  /\ UploadAtRest
  /\ BestSellersAtRest
SpecActions == InitActions /\ [][ActionNext]_vars

InitMissingAction ==
  /\ store \in [ StoreVariants -> [ sku : { Null, Str(<<"A", " ">>) }, alive : { TRUE } ] ]
  /\ ActionIdle
  /\ route = "missing-skus"
  /\ LoaderAtRest
  /\ CsvAtRest
  /\ CompareAtRest
  /\ ViewAtRest
  /\ UploadAtRest
  /\ BestSellersAtRest
SpecMissingAction == InitMissingAction /\ [][MissingActionNext]_vars

\* the duplicate-SKU page lists variants that have a SKU, the missing-SKU
\* page variants without one (or with one set since the list was loaded)
InitReassign ==
  /\ \/ /\ route = "duplicate-skus"
        /\ store \in [ StoreVariants ->
                         [ sku : { Str(<<"A", " ">>), Str(<<"A", "B">>) }, alive : { TRUE } ] ]
     \/ /\ route = "missing-skus"
        /\ store \in [ StoreVariants -> [ sku : { Null, Str(<<"A", " ">>) }, alive : { TRUE } ] ]
  /\ ActionIdle
  /\ LoaderAtRest
  /\ CsvAtRest
  /\ CompareAtRest
  /\ ViewAtRest
  /\ UploadAtRest
  /\ BestSellersAtRest
SpecReassign == InitReassign /\ [][ReassignNext]_vars

\* a page as first loaded, over a store whose variants all have the same
\* SKU (duplicate-SKU route) or may lack a SKU (missing-SKU route)
InitPage ==
  /\ \/ /\ route = "duplicate-skus"
        /\ store = [ v \in StoreVariants |-> [ sku |-> Str(<<"A", " ">>), alive |-> TRUE ] ]
     \/ /\ route = "missing-skus"
        /\ store \in [ StoreVariants -> [ sku : { Null, Str(<<"A", " ">>) }, alive : { TRUE } ] ]
  /\ ActionIdle
  /\ InitView
  /\ LoaderAtRest
  /\ CsvAtRest
  /\ CompareAtRest
  /\ UploadAtRest
  /\ BestSellersAtRest
SpecView == InitPage /\ [][ViewNext]_vars

\* the duplicate-SKU page over a store in which every variant has the same SKU
InitDuplicatePage ==
  /\ route = "duplicate-skus"
  /\ store = [ v \in StoreVariants |-> [ sku |-> Str(<<"A", " ">>), alive |-> TRUE ] ]
  /\ ActionIdle
  /\ InitView
  /\ LoaderAtRest
  /\ CsvAtRest
  /\ CompareAtRest
  /\ UploadAtRest
  /\ BestSellersAtRest
SpecDuplicateView == InitDuplicatePage /\ [][DuplicateViewNext]_vars

\* the upload page as first rendered: no file chosen, no request made
InitUpload ==
  /\ route \in UploadRoutes
  /\ UploadAtRest
  /\ BestSellersAtRest
  /\ CompareAtRest
  /\ LoaderAtRest
  /\ ActionsAtRest
  /\ CsvAtRest
  /\ ViewAtRest
SpecUpload == InitUpload /\ [][UploadNext]_vars

InitCSV ==
  /\ line \in CsvRows
  /\ fields = <<>>
  /\ cpc = "row"
  /\ route = "csv-comparison"
  /\ LoaderAtRest
  /\ ActionsAtRest
  /\ CompareAtRest
  /\ ViewAtRest
  /\ UploadAtRest
  /\ BestSellersAtRest
SpecCSV == InitCSV /\ [][ParseLine]_vars

InitCompare ==
  /\ csvDataGiven \in BOOLEAN
  /\ csvRows \in (IF csvDataGiven THEN CsvRowLists ELSE { <<>> })
  /\ cmpPc = "loop"
  /\ cmpFetches = 0
  /\ cmpHasNextPage = TRUE
  /\ cmpCursor = 0
  /\ shopifyVariants = <<>>
  /\ cmpProducts = <<>>
  /\ cmpResult = CompareFailure("pending")
  /\ route = "csv-comparison"
  /\ LoaderAtRest
  /\ ActionsAtRest
  /\ CsvAtRest
  /\ ViewAtRest
  /\ UploadAtRest
  /\ BestSellersAtRest
SpecCompare == InitCompare /\ [][CompareNext]_vars

\* a comparison request with one CSV row
InitSharedSku ==
  /\ csvDataGiven = TRUE
  /\ csvRows \in [ 1..1 -> [ SKU : CsvSkuPool, GTIN : CsvGtinPool ] ]
  /\ cmpPc = "loop"
  /\ cmpFetches = 0
  /\ cmpHasNextPage = TRUE
  /\ cmpCursor = 0
  /\ shopifyVariants = <<>>
  /\ cmpProducts = <<>>
  /\ cmpResult = CompareFailure("pending")
  /\ route = "csv-comparison"
  /\ LoaderAtRest
  /\ ActionsAtRest
  /\ CsvAtRest
  /\ ViewAtRest
  /\ UploadAtRest
  /\ BestSellersAtRest
SpecSharedSku == InitSharedSku /\ [][SharedSkuNext]_vars

\* the best-sellers action over a collection of any membership
InitBestSellers ==
  /\ collection \in SUBSET BsProductIds
  /\ assignments = 0
  /\ bsRequest = NoRequest
  /\ existingProductIds = {}
  /\ addCalls = <<>>
  /\ bsResult = FALSE
  /\ bsPrev = NoPrevRequest
  /\ route = "best-sellers"
  /\ LoaderAtRest
  /\ ActionsAtRest
  /\ CsvAtRest
  /\ CompareAtRest
  /\ ViewAtRest
  /\ UploadAtRest
SpecBestSellers == InitBestSellers /\ [][BestSellersNext]_vars

(***************************************************************************)
(* What the claims speak of, stated over the delivered variants.           *)
(***************************************************************************)
\* the trimmed key text of a delivered node, "" when absent
KeyText(n) ==
  LET k == KeyOf(route, n) IN IF k.isNull THEN <<>> ELSE Trim(k.str)

ScannedIds(k) == { scanned[i].id : i \in { j \in DOMAIN scanned : KeyText(scanned[j]) = k } }
ScannedKeys == { KeyText(scanned[i]) : i \in DOMAIN scanned } \ { <<>> }
FirstSeen(k) == CHOOSE i \in DOMAIN scanned :
                  /\ KeyText(scanned[i]) = k
                  /\ \A j \in 1..(i - 1) : KeyText(scanned[j]) # k

RECURSIVE SumCounts(_)
SumCounts(dups) == IF dups = <<>> THEN 0 ELSE Head(dups).count + SumCounts(Tail(dups))

VariantIds(vs) == { vs[i].variantId : i \in DOMAIN vs }

\* C1: in a duplicate-SKU loader run that completes without error,
\* totalVariantsScanned = (variants with empty/absent trimmed SKU)
\* + (sum of the duplicate group sizes) + (variants whose SKU is unique)
C1_TotalCountsEveryVariant ==
  (lpc = "returned" /\ route = "duplicate-skus" /\ loaderResult.error = "null") =>
    loaderResult.totalVariantsScanned =
        Cardinality(ScannedIds(<<>>))
      + SumCounts(loaderResult.duplicates)
      + Cardinality({ k \in ScannedKeys : Cardinality(ScannedIds(k)) = 1 })

\* C2: after a duplicate loader consumed all pages, every non-empty trimmed key
\* on more than one scanned variant has exactly one entry in duplicates, holding
\* all and only the variants with that key, count = list length; a key that
\* occurs once has no entry
C2_DuplicateGroups ==
  (lpc = "returned" /\ route \in DuplicateRoutes) =>
    LET dups == loaderResult.duplicates IN
    /\ \A k \in ScannedKeys :
         LET at == { i \in DOMAIN dups : dups[i].key = k } IN
         IF Cardinality(ScannedIds(k)) > 1
         THEN /\ Cardinality(at) = 1
              /\ \A i \in at :
                   /\ VariantIds(dups[i].variants) = ScannedIds(k)
                   /\ Len(dups[i].variants) = Cardinality(ScannedIds(k))
                   /\ dups[i].count = Len(dups[i].variants)
         ELSE at = {}
    /\ \A i \in DOMAIN dups : dups[i].key \in ScannedKeys

C2_Witness ==
  /\ lpc = "returned" /\ route \in DuplicateRoutes
  /\ fetches = 2
  /\ Len(loaderResult.duplicates) = 1

\* C3: duplicates is ordered by descending count, and groups of equal count
\* appear in the order their keys were first seen in delivery order
C3_SortedStable ==
  (lpc = "returned" /\ route \in DuplicateRoutes) =>
    LET dups == loaderResult.duplicates IN
    \A i, j \in DOMAIN dups :
      i < j =>
        /\ dups[i].count >= dups[j].count
        /\ dups[i].count = dups[j].count =>
             FirstSeen(dups[i].key) < FirstSeen(dups[j].key)

C3_Witness ==
  /\ lpc = "returned" /\ route \in DuplicateRoutes
  /\ Len(loaderResult.duplicates) = 2
  /\ loaderResult.duplicates[1].count = loaderResult.duplicates[2].count

\* C4: a variant whose key field is absent, empty or whitespace-only is never
\* a member of a key group and the Map never has an entry for ""; the missing
\* loaders list exactly those variants; two variants share a group iff their
\* keys are equal after trimming
C4_EmptyKeyNeverGrouped ==
  /\ (route \in DuplicateRoutes /\ lpc = "loop") =>
       /\ \A e \in DOMAIN skuMap :
            /\ skuMap[e].key # <<>>
            /\ VariantIds(skuMap[e].variants) \cap ScannedIds(<<>>) = {}
       /\ \A i, j \in DOMAIN scanned :
            (KeyText(scanned[i]) # <<>> /\ KeyText(scanned[j]) # <<>>) =>
              ( (\E e \in DOMAIN skuMap :
                   { scanned[i].id, scanned[j].id } \subseteq VariantIds(skuMap[e].variants))
                <=> KeyText(scanned[i]) = KeyText(scanned[j]) )
  /\ (route \in DuplicateRoutes /\ lpc = "returned") =>
       \A d \in DOMAIN loaderResult.duplicates :
         /\ loaderResult.duplicates[d].key # <<>>
         /\ VariantIds(loaderResult.duplicates[d].variants) \cap ScannedIds(<<>>) = {}
  /\ (route \in MissingRoutes /\ lpc = "loop") =>
       VariantIds(missingSKUs) = ScannedIds(<<>>)
  /\ (route \in MissingRoutes /\ lpc = "returned") =>
       VariantIds(loaderResult.missing) = ScannedIds(<<>>)

C4_Witness ==
  /\ route \in DuplicateRoutes /\ lpc = "loop"
  /\ ScannedIds(<<>>) # {}
  /\ Len(skuMap) = 1

\* C5: in the missing loaders, after every processed page and in the result,
\* totalVariantsScanned = variantsWithSKUs + missingSKUs.length, every scanned
\* variant being counted in exactly one of the two
C5_MissingCounters ==
  /\ (route \in MissingRoutes /\ lpc = "loop") =>
       /\ totalVariants = variantsWithSKUs + Len(missingSKUs)
       /\ totalVariants = Len(scanned)
       /\ Len(missingSKUs) = Cardinality(ScannedIds(<<>>))
  /\ (route \in MissingRoutes /\ lpc = "returned") =>
       /\ loaderResult.totalVariantsScanned =
            loaderResult.variantsWithKey + Len(loaderResult.missing)
       /\ loaderResult.totalVariantsScanned = Len(scanned)
       /\ Len(loaderResult.missing) = Cardinality(ScannedIds(<<>>))

C5_Witness ==
  /\ route \in MissingRoutes /\ lpc = "returned"
  /\ fetches = 2
  /\ loaderResult.variantsWithKey > 0
  /\ Len(loaderResult.missing) > 0

\* C14: no collector loop issues a page fetch after a page response whose
\* endCursor was null or absent: every fetch after the first carries a cursor.
C14_NoFetchAfterNullCursor ==
  [][ (fetches' = fetches + 1 /\ fetches > 0) => cursor # 0 ]_vars

\* C15: a loader whose page fetch failed has returned a result with a
\* non-empty error, empty result lists and zero counters, whatever the
\* earlier pages had delivered, and it issues no further fetch.
C15_CollectionErrorDiscardsAll ==
  [][ /\ lpc' = "failed" =>
           /\ loaderResult'.error \notin { "null", "", "pending" }
           /\ loaderResult'.duplicates = <<>>
           /\ loaderResult'.missing = <<>>
           /\ loaderResult'.totalProductsScanned = 0
           /\ loaderResult'.totalVariantsScanned = 0
           /\ loaderResult'.variantsWithKey = 0
      /\ lpc = "failed" => (fetches' = fetches /\ loaderResult' = loaderResult) ]_vars

\* a fetch failed after earlier pages had delivered variants
C15_Witness ==
  /\ lpc = "failed"
  /\ fetches = 2
  /\ discarded > 0
  /\ loaderResult.duplicates = <<>>
  /\ loaderResult.missing = <<>>

(***************************************************************************)
(* What the claims about the bulk actions speak of.                        *)
(***************************************************************************)
LogIndex == 1..Len(writeLog)
Failed(e) == e.outcome # "ok"
\* "IC-" followed by the numeric suffix of the variant's identifier
IcOf(v) == << "I", "C", "-", DigitChars[v] >>
\* the inputs whose SKU a reassign derivation produced: those waiting for
\* their write call and those a write call was issued with
DerivedInputs ==
  (IF actionType = "reassignSku"
   THEN UNION { { variantsByProduct[i].inputs[j] : j \in 1..Len(variantsByProduct[i].inputs) } :
                i \in 1..Len(variantsByProduct) }
   ELSE {})
  \cup
  (IF actionType \in { "reassignSku", "updateMissing" }
   THEN UNION { { writeLog[i].inputs[j] : j \in 1..Len(writeLog[i].inputs) } : i \in LogIndex }
   ELSE {})

\* C6: in the write loop of the duplicate-SKU action (removeSku, reassignSku,
\* deleteVariants), a write call that returns GraphQL errors or userErrors
\* for a product that is not the last one is followed by the write call of
\* the next product: the loop goes on.
C6_RemainingWritesAttempted ==
  [][ ( /\ route = "duplicate-skus"
        /\ apc = "write"
        /\ writeIdx < Len(variantsByProduct)
        /\ Len(writeLog') = Len(writeLog) + 1
        /\ writeLog'[Len(writeLog')].outcome \in { "errors", "userErrors" } )
      => ( apc' = "write" /\ writeIdx' = writeIdx + 1 ) ]_vars

\* C16: in one invocation of a bulk action no product id is written to
\* twice, and when the write loop is left every product id of the plan has
\* received its write call: exactly one call each, failed ones included.
C16_OneWritePerProduct ==
  [][ /\ \A i, k \in 1..Len(writeLog') :
           i # k => writeLog'[i].productId # writeLog'[k].productId
      /\ (apc = "write" /\ apc' = "done") =>
           \A i \in 1..Len(variantsByProduct) :
             Cardinality({ k \in 1..Len(writeLog') :
                           writeLog'[k].productId = variantsByProduct[i].productId }) = 1 ]_vars

\* C17: in every write call issued by a bulk action each variant id sent
\* belongs to the product id the call names, whatever product ids the
\* submitted form carried.
C17_VariantsBelongToProduct ==
  \A i \in LogIndex :
    \A j \in 1..Len(writeLog[i].inputs) :
      ProductOf(VariantOfGid(writeLog[i].inputs[j].id)) = writeLog[i].productId

\* the case of C7: the missing-SKU action returned after two write calls, one
\* per product, one of which succeeded and one of which failed
TwoProductsOneFailed ==
  /\ actionType = "updateMissing"
  /\ apc = "done"
  /\ Len(writeLog) = 2
  /\ writeLog[1].productId # writeLog[2].productId
  /\ \E i \in LogIndex : ~Failed(writeLog[i])
  /\ \E i \in LogIndex : Failed(writeLog[i])

\* C7 as stated: with two products of which one fails and one succeeds, the
\* successful product's variants are counted in successCount and errors holds
\* exactly one entry, naming the failed product and carrying its message.
C7_ExactlyOneErrorEntry ==
  TwoProductsOneFailed =>
    \A ok, ko \in LogIndex :
      (~Failed(writeLog[ok]) /\ Failed(writeLog[ko])) =>
        /\ actionResult.count >= Len(writeLog[ok].inputs)
        /\ Len(actionResult.errors) = 1
        /\ actionResult.errors[1].productId = writeLog[ko].productId
        /\ actionResult.errors[1].error = writeLog[ko].messages[1]

\* C7 amended: with two products of which one fails and one succeeds, the
\* successful product's variants are counted in successCount, and errors
\* holds one entry for each error the failed call reported (one for a thrown
\* error, one per userError), in order, each naming the failed product and
\* carrying that error's message; no entry names the successful product.
C7_OneEntryPerReportedError ==
  TwoProductsOneFailed =>
    \A ok, ko \in LogIndex :
      (~Failed(writeLog[ok]) /\ Failed(writeLog[ko])) =>
        /\ actionResult.success
        /\ actionResult.count = Len(writeLog[ok].inputs) + writeLog[ko].updated
        /\ Len(actionResult.errors) = Len(writeLog[ko].messages)
        /\ Len(actionResult.errors) >= 1
        /\ writeLog[ko].outcome = "thrown" => Len(actionResult.errors) = 1
        /\ \A i \in 1..Len(actionResult.errors) :
             /\ actionResult.errors[i].productId = writeLog[ko].productId
             /\ actionResult.errors[i].productId # writeLog[ok].productId
             /\ actionResult.errors[i].error = writeLog[ko].messages[i]

\* the first product's call reported two userErrors, the second succeeded
C7_Witness ==
  /\ TwoProductsOneFailed
  /\ writeLog[1].outcome = "userErrors"
  /\ Len(writeLog[1].messages) = 2
  /\ writeLog[2].outcome = "ok"
  /\ Len(actionResult.errors) = 2
  /\ actionResult.count >= 1

\* C8: every reassigned SKU value computed, in the duplicate-SKU action and
\* in the missing-SKU action, is "IC-" followed by the numeric suffix of the
\* identifier of the variant it is computed for, whatever SKU the variant
\* holds at that moment; so two derivations for one variant agree.
C8_ReassignDependsOnIdOnly ==
  /\ \A e \in DerivedInputs : \E v \in StoreVariants : e.id = Gid(v) /\ e.sku = IcOf(v)
  /\ \A e, f \in DerivedInputs : e.id = f.id => e.sku = f.sku

\* the second reassignSku in succession derives for a variant whose SKU is by
\* now the value the first derivation gave it, not the SKU it started with
C8_Witness ==
  /\ run = 2
  /\ actionType = "reassignSku"
  /\ apc = "write"
  /\ \E e \in DerivedInputs :
       LET v == VariantOfGid(e.id)
       IN /\ store[v].sku = Str(IcOf(v))
          /\ e.sku = IcOf(v)

\* C9: a removeSku submitted again with the SKUs of a first successful
\* removeSku, when nothing goes wrong in its calls, succeeds and leaves the
\* SKU of the variants the first run cleared empty.
C9_SecondClearSucceeds ==
  ( /\ actionType = "removeSku"
    /\ apc = "done"
    /\ prev.actionType = "removeSku"
    /\ prev.success
    /\ prev.cleared # {}
    /\ skuList = prev.skuList
    /\ actionResult.error \notin { "GraphQL search error", "Error removing/re-assigning SKUs" }
    /\ \A i \in LogIndex : ~Failed(writeLog[i]) )
  => ( /\ actionResult.success
       /\ \A v \in prev.cleared : Falsy(store[v].sku) )

(***************************************************************************)
(* What the claim about parseCSVLine speaks of.                            *)
(***************************************************************************)
QuotesBefore(row, i) == Cardinality({ j \in 1..(i - 1) : row[j] = Quote })
\* the commas outside double quotes: an even number of quotes precedes them
UnquotedCommas(row) ==
  { i \in DOMAIN row : row[i] = Comma /\ QuotesBefore(row, i) % 2 = 0 }
QuotedCommas(row) ==
  { i \in DOMAIN row : row[i] = Comma /\ QuotesBefore(row, i) % 2 = 1 }
RECURSIVE CommasIn(_)
CommasIn(fs) ==
  IF fs = <<>> THEN 0
  ELSE Cardinality({ i \in DOMAIN Head(fs) : Head(fs)[i] = Comma }) + CommasIn(Tail(fs))

\* C10: parseCSVLine returns one field more than the row has commas outside
\* double quotes; the commas inside quotes stay in the fields; the row
\* "A, B",C gives the two fields `A, B` and `C`, and the row "say ""hi"""
\* gives the single field `say "hi"`.
C10_ParseCSVLine ==
  cpc = "parsed" =>
    /\ Len(fields) = 1 + Cardinality(UnquotedCommas(line))
    /\ CommasIn(fields) = Cardinality(QuotedCommas(line))
    /\ line = RowQuotedComma => fields = << << "A", Comma, " ", "B" >>, << "C" >> >>
    /\ line = RowEscapedQuote =>
         fields = << << "s", "a", "y", " ", Quote, "h", "i", Quote >> >>

\* a parsed row with a comma inside quotes and a comma outside them
C10_Witness ==
  /\ cpc = "parsed"
  /\ line = RowQuotedComma
  /\ Len(fields) = 2
  /\ QuotedCommas(line) # {}
  /\ UnquotedCommas(line) # {}

(***************************************************************************)
(* What the claims about the CSV comparison speak of.                      *)
(***************************************************************************)
Buckets == { "matched", "skuNotFound", "barcodeMismatch", "skuFoundBarcodeMatch" }
BucketOf(b) ==
  CASE b = "matched" -> cmpResult.results.matched
    [] b = "skuNotFound" -> cmpResult.results.skuNotFound
    [] b = "barcodeMismatch" -> cmpResult.results.barcodeMismatch
    [] b = "skuFoundBarcodeMatch" -> cmpResult.results.skuFoundBarcodeMatch
InBucket(b, i) == \E k \in 1..Len(BucketOf(b)) : BucketOf(b)[k].row = i
TimesInBucket(b, i) == Cardinality({ k \in 1..Len(BucketOf(b)) : BucketOf(b)[k].row = i })
RowHasSku(i) == ~Falsy(OptTrim(csvRows[i].SKU))
RowFound(i) == RowHasSku(i) /\ VariantMapHas(shopifyVariants, Trim(csvRows[i].SKU.str))
RowBarcode(i) == VariantMapGet(shopifyVariants, Trim(csvRows[i].SKU.str)).barcode
IsDigits(t) == t # <<>> /\ \A k \in DOMAIN t : t[k] \in { "0", "1", "2", "3", "4", "5", "6", "7", "8", "9" }
\* the one normalization the specification allows: <digits>.0 read as <digits>
DigitsDotZero(t) ==
  Len(t) >= 3 /\ SubSeq(t, Len(t) - 1, Len(t)) = << Dot, "0" >> /\ IsDigits(SubSeq(t, 1, Len(t) - 2))
AllowedGTIN(gtin) ==
  LET t == OptTrim(gtin)
  IN IF ~Falsy(t) /\ DigitsDotZero(t.str) THEN Str(SubSeq(t.str, 1, Len(t.str) - 2)) ELSE t

\* C11: a CSV row whose GTIN is "123.0" and whose SKU is that of a store
\* variant with barcode "123" is listed in skuFoundBarcodeMatch and not in
\* barcodeMismatch.
C11_DotZeroMatches ==
  cmpPc = "returned" =>
    \A i \in DOMAIN csvRows :
      ( /\ RowFound(i)
        /\ csvRows[i].GTIN = Str(<<"1", "2", "3", Dot, "0">>)
        /\ RowBarcode(i) = Str(<<"1", "2", "3">>) )
      => ( /\ TimesInBucket("skuFoundBarcodeMatch", i) = 1
           /\ ~InBucket("barcodeMismatch", i)
           /\ ~InBucket("matched", i) )

C11_Witness ==
  /\ cmpPc = "returned"
  /\ \E i \in DOMAIN csvRows :
       /\ RowFound(i)
       /\ csvRows[i].GTIN = Str(<<"1", "2", "3", Dot, "0">>)
       /\ RowBarcode(i) = Str(<<"1", "2", "3">>)
       /\ InBucket("skuFoundBarcodeMatch", i)

\* C12: a GTIN that contains a decimal point and is not of the form
\* <digits>.0 is compared with the store barcode unchanged: the row is a
\* barcode match only when the GTIN as uploaded equals the barcode, so
\* "123.5" is not a match for barcode "123".
C12_OnlyDotZeroNormalized ==
  cmpPc = "returned" =>
    \A i \in DOMAIN csvRows :
      ( /\ RowFound(i)
        /\ ~Falsy(OptTrim(csvRows[i].GTIN))
        /\ Includes(csvRows[i].GTIN.str, Dot)
        /\ ~DigitsDotZero(Trim(csvRows[i].GTIN.str))
        /\ ~Falsy(RowBarcode(i)) )
      => ( InBucket("skuFoundBarcodeMatch", i) <=> OptTrim(csvRows[i].GTIN) = RowBarcode(i) )

\* the GTIN of the row is empty, or plain, or of the form <digits>.0
PlainGTIN(i) ==
  LET t == OptTrim(csvRows[i].GTIN)
  IN Falsy(t) \/ ~Includes(t.str, Dot) \/ DigitsDotZero(t.str)

\* the bucket C13 gives a row
ClaimedClass(i) ==
  LET gtin == AllowedGTIN(csvRows[i].GTIN)
  IN IF ~RowFound(i) THEN "key-not-found"
     ELSE IF ~Falsy(gtin) /\ ~Falsy(RowBarcode(i))
     THEN IF gtin = RowBarcode(i) THEN "matched" ELSE "field-mismatch"
     ELSE IF Falsy(gtin) /\ Falsy(RowBarcode(i)) THEN "matched"
     ELSE "field-missing-on-one-side"

\* C13: every CSV row with a non-empty trimmed SKU is in exactly one bucket,
\* and two rows share a bucket exactly when the classification gives them the
\* same class among key-not-found, field-mismatch, field-missing-on-one-side
\* and matched (both empty or both equal); rows missing the field on one side
\* are in a bucket other than that of the matched rows. Stated for rows
\* whose GTIN is empty, plain or of the form <digits>.0.
C13_BucketPerClass ==
  cmpPc = "returned" =>
    /\ \A i \in DOMAIN csvRows :
         RowHasSku(i) =>
           \E b \in Buckets :
             /\ TimesInBucket(b, i) = 1
             /\ \A c \in Buckets \ { b } : ~InBucket(c, i)
    /\ \A i, j \in DOMAIN csvRows :
         (RowHasSku(i) /\ RowHasSku(j) /\ PlainGTIN(i) /\ PlainGTIN(j)) =>
           ( (\E b \in Buckets : InBucket(b, i) /\ InBucket(b, j))
             <=> ClaimedClass(i) = ClaimedClass(j) )


(***************************************************************************)
(* Claims about the views.                                                 *)
(***************************************************************************)
\* a step in which a view posts a bulk operation
Submits == run' = run + 1

\* C18 (as stated): in the duplicate-SKU view and in the missing-SKU view,
\* the submission that starts a bulk operation is made only from the
\* Confirming state.
C18_SubmitOnlyFromConfirming == [][ Submits => Confirming ]_vars

\* C18 (amended): the duplicate-SKU view submits only from the Confirming
\* state, which is entered only from the idle page; the missing-SKU view has
\* no Confirming state and submits from the idle page.
C18_ConfirmInDuplicateViewOnly ==
  [][ /\ Submits => IF route = "duplicate-skus" THEN Confirming ELSE PageReachable
      /\ (Confirming' /\ ~Confirming) => (route = "duplicate-skus" /\ PageReachable)
    ]_vars

\* a confirmed operation of the duplicate-SKU view is executing
C18_Witness ==
  /\ route = "duplicate-skus"
  /\ showModal
  /\ modalState = "deleting"
  /\ fetcherState = "submitting"
  /\ apc = "write"

\* the step in which a view takes up the result of its operation
Completes == fetcherState = "loading" /\ fetcherState' = "idle"
\* a batch write of the operation failed, or the action returned an error
OperationFailed ==
  \/ \E i \in LogIndex : Failed(writeLog[i])
  \/ ~fetcherData[1].success
\* the result the view received tells of a failure
ResultCarriesFailure ==
  \/ ~fetcherData[1].success
  \/ fetcherData[1].failedCount > 0
  \/ fetcherData[1].errors # <<>>

\* C19: when a bulk operation ends in failure (a batch write failed or the
\* action returned an error), the view that takes up the result leaves the
\* operator's selection as it was.
C19_FailureKeepsSelection ==
  [][ (Completes /\ OperationFailed)
        => (selectedSkus' = selectedSkus /\ selectedVariants' = selectedVariants) ]_vars

\* C20: when a batch write of a bulk operation failed, the result the view
\* receives carries the failure and the view shows an error once it has
\* taken up the result.
C20_BatchFailureShown ==
  [][ (Completes /\ \E i \in LogIndex : Failed(writeLog[i]))
        => (ResultCarriesFailure /\ ErrorShown') ]_vars

(***************************************************************************)
(* Claims about partial failure.                                           *)
(***************************************************************************)
\* the store holds what write call i sent
WriteStands(i) ==
  \A j \in 1..Len(writeLog[i].inputs) :
    store[VariantOfGid(writeLog[i].inputs[j].id)].sku = Str(writeLog[i].inputs[j].sku)

C22_ParseErrorNoSubmit ==
  [][ /\ (upc = "reading" /\ upc' = "failed")
         => (alerted' = ParseErrorText /\ UNCHANGED cmpVars)
      /\ upc = "failed" => cmpFetches' = cmpFetches
    ]_vars

\* a parse error was caught and alerted, and no request has been made
C22_Witness ==
  /\ upc = "failed"
  /\ alerted = ParseErrorText
  /\ cmpPc = "idle"

(***************************************************************************)
(* Claims about the reassigned SKUs and the variant search.                *)
(***************************************************************************)
\* the live variants the duplicate-SKU loader would group under a SKU
GroupOf(sku) ==
  { v \in StoreVariants :
      store[v].alive /\ ~Falsy(OptTrim(store[v].sku)) /\ Trim(store[v].sku.str) = sku }
\* the variants the write calls of this action named
Written == UNION { InputVariants(writeLog[i].inputs) : i \in LogIndex }

\* C23: after a successful reassignSku, the values written to distinct
\* variants are pairwise distinct, no submitted SKU is still shared by two
\* variants, and no two reassigned variants share a SKU.
C23_ReassignLeavesNoDuplicate ==
  (apc = "done" /\ actionType = "reassignSku" /\ actionResult.success)
    => /\ \A v, w \in Written : v # w => store[v].sku # store[w].sku
       /\ \A i \in 1..Len(skuList) : Cardinality(GroupOf(skuList[i])) <= 1
       /\ \A v, w \in Written :
            v # w => Trim(store[v].sku.str) # Trim(store[w].sku.str)

\* the variants a product -> inputs Map names
MapVariants(m) == UNION { InputVariants(m[i].inputs) : i \in 1..Len(m) }

\* C28: removeSku / reassignSku enter the write loop only after the search
\* of every submitted SKU was paged to its end, so that the collected set
\* holds every variant with one of these SKUs.
C28_WritesAfterCompleteSearch ==
  [][ (apc = "search" /\ apc' = "write")
        => MapVariants(variantsByProduct')
           = UNION { GroupOf(skuList[i]) : i \in 1..Len(skuList) } ]_vars

(***************************************************************************)
(* Claims about the life cycle of a bulk operation in the views.           *)
(***************************************************************************)
\* C24: in the missing-SKU view the completion effect acts at most once on
\* the result of a submission, however often it runs again while the
\* fetcher is idle, and its guard is reset only by a step that takes the
\* fetcher to submitting or loading.
C24_ResultHandledOnce ==
  [][ /\ resultsHandled' <= 1
      /\ (handledFetcherResultRef /\ ~handledFetcherResultRef')
           => fetcherState' \in { "submitting", "loading" }
    ]_vars

\* the result of a submission has been handled, the operator has selected
\* again, and the effect has run again
C24_Witness ==
  /\ route = "missing-skus"
  /\ fetcherState = "idle"
  /\ fetcherData # <<>>
  /\ handledFetcherResultRef
  /\ resultsHandled = 1
  /\ selectedVariants # {}

\* C25: in the duplicate-SKU view at most one bulk operation is pending: a
\* form is posted only from the confirm state of the dialog with the fetcher
\* idle, the dialog is opened for an operation only while it is closed, a
\* dialog in its "deleting" state is left only by the step that takes up the
\* result, and while an operation is pending the dialog is shown "deleting".
C25_OneOperationPending ==
  [][ /\ Submits => (Confirming /\ fetcherState = "idle")
      /\ (modalAction' # modalAction /\ modalAction' # "null") => ~showModal
      /\ (showModal /\ modalState = "deleting"
          /\ (~showModal' \/ modalState' # "deleting")) => Completes
      /\ fetcherState' # "idle" => (showModal' /\ modalState' = "deleting")
    ]_vars

\* C26: in the duplicate-SKU view, when the fetcher becomes idle with the
\* result of a confirmed operation, the dialog is closed, modalAction,
\* selectedSkuInfo and selectedVariantInfo are reset and modalState is back
\* to "confirm", whether the action succeeded or failed.
C26_CompletionResetsDialog ==
  [][ (route = "duplicate-skus" /\ Completes) =>
        /\ ~showModal'
        /\ modalState' = "confirm"
        /\ modalAction' = "null"
        /\ selectedSkuInfo' = <<>>
        /\ selectedVariantInfo' = NoVariantInfo
    ]_vars

(***************************************************************************)
(* Claims about the counts of the missing-SKU action.                      *)
(***************************************************************************)
\* the variants the update loop has sent to the store
SubmittedVariants == SumLen([ i \in LogIndex |-> writeLog[i].inputs ])

PlacesWithSku(page, sku) ==
  { k \in DOMAIN page : ~Falsy(OptTrim(page[k].sku)) /\ OptTrim(page[k].sku).str = sku }
PageSkus(page) ==
  { OptTrim(page[k].sku).str : k \in { j \in DOMAIN page : ~Falsy(OptTrim(page[j].sku)) } }
LastPlaceWithSku(page, sku) ==
  CHOOSE k \in PlacesWithSku(page, sku) : \A j \in PlacesWithSku(page, sku) : j <= k
MapSkus(m) == { m[k].sku : k \in DOMAIN m }
\* the bucket the comparison loop chooses for a GTIN and a barcode
BucketFor(csvGTIN, barcode) ==
  IF ~Falsy(csvGTIN) /\ ~Falsy(barcode)
  THEN IF csvGTIN = barcode THEN "skuFoundBarcodeMatch" ELSE "barcodeMismatch"
  ELSE "matched"

\* C29: in the CSV comparison, of the store variants that share a trimmed SKU
\* the one delivered last is the one a CSV row with that SKU is compared
\* with: once the last page is folded in, shopifyVariants holds one entry per
\* SKU, with the barcode of the last variant of the page that has the SKU
\* (and the entries of the other SKUs as they were); a row whose SKU is
\* found has exactly one result entry, in the bucket that its GTIN and that
\* barcode determine.
C29_LastVariantDecides ==
  [][ /\ (cmpPc = "loop" /\ cmpPc' = "returned") =>
           /\ MapSkus(shopifyVariants') = MapSkus(shopifyVariants) \cup PageSkus(cmpProducts')
           /\ \A sku \in MapSkus(shopifyVariants') :
                /\ Cardinality({ k \in DOMAIN shopifyVariants' :
                                   shopifyVariants'[k].sku = sku }) = 1
                /\ IF sku \in PageSkus(cmpProducts')
                   THEN VariantMapGet(shopifyVariants', sku).barcode
                        = TrimOrNull(cmpProducts'[LastPlaceWithSku(cmpProducts', sku)].barcode)
                   ELSE VariantMapGet(shopifyVariants', sku)
                        = VariantMapGet(shopifyVariants, sku)
      /\ (cmpPc' = "returned" =>
            \A i \in DOMAIN csvRows' :
              RowFound(i)' =>
                \A b \in Buckets :
                  TimesInBucket(b, i)' =
                    (IF b = BucketFor(CsvGTIN(csvRows'[i].GTIN), RowBarcode(i)') THEN 1 ELSE 0))
    ]_vars

\* the last page held two variants with the SKU of a CSV row and different
\* barcodes, and the row was classified
C29_Witness ==
  /\ cmpPc = "returned"
  /\ \E i \in DOMAIN csvRows :
       /\ RowFound(i)
       /\ \E j, k \in PlacesWithSku(cmpProducts, Trim(csvRows[i].SKU.str)) :
            /\ j < k
            /\ TrimOrNull(cmpProducts[j].barcode) # TrimOrNull(cmpProducts[k].barcode)
            /\ ~Falsy(TrimOrNull(cmpProducts[j].barcode))
       /\ ~Falsy(CsvGTIN(csvRows[i].GTIN))
       /\ InBucket("skuFoundBarcodeMatch", i)

(***************************************************************************)
(* Claims about the best-sellers action.                                   *)
(***************************************************************************)
\* C30: the best-sellers action in add mode sends no product id of the
\* fetched membership to collectionAddProducts; when every selected product
\* is in the fetched membership it makes no write call and returns success;
\* and an add that repeats the successful add before it makes no write call.
C30_AddSkipsPresent ==
  bsRequest.assignmentMode = "add" =>
    /\ \A i \in DOMAIN addCalls : addCalls[i] \cap existingProductIds = {}
    /\ (bsRequest.productIds # {} /\ bsRequest.productIds \subseteq existingProductIds)
         => (addCalls = <<>> /\ bsResult)
    /\ (bsPrev.assignmentMode = "add" /\ bsPrev.success
        /\ bsPrev.productIds = bsRequest.productIds)
         => addCalls = <<>>
====
